---- MODULE Spec2Model ----
(***************************************************************************)
(* Void Vault (src/main.rs): the structure engine, the domain table, the   *)
(* preview/commit session protocol of run_json_io_mode and the executable  *)
(* rewrite (temp file, permissions, backup rename, final rename).          *)
(*                                                                         *)
(* Numbers.  The engine computes with f64 coordinates and u64 hashes.      *)
(* Here a coordinate is an integer number of thousandths (the unit that    *)
(* hash_position itself uses: (coord * 1000.0) as i64), divisions truncate *)
(* toward zero, and a u64 is kept to its low WordBits bits, so that every  *)
(* wrapping_mul / wrapping_add is taken modulo WordMod.                    *)
(***************************************************************************)
EXTENDS Integers, Sequences, FiniteSets, TLC

(***************************************************************************)
(* Bounds of the model                                                     *)
(***************************************************************************)
\* width kept of a u64 word
WordBits == 13
\* dimensions of the structure (7 in run_simple_setup)
Dim == 1
\* slots of the domain table (512 in the source)
NumSlots == 2
\* reads of the protocol loop (messages, or the end of the input)
MaxMsgs == 2
\* executable rewrites followed step by step
MaxRewrites == 2
\* the bytes the scan for the domain-table marker reaches back from the end
\* of the file: 10 * 1024 * 1024 of the files of the program, which run to
\* megabytes, scaled to the files of this model, which run to tens of bytes
SearchWindow == 128

(***************************************************************************)
(* Program constants                                                       *)
(***************************************************************************)
\* low 15 bits of the LCG multiplier 6364136223846793005
LcgMulLow == 32557
\* low 15 bits of the LCG increment 1442695040888963407
LcgIncLow == 335
\* low 15 bits of DOMAIN_HASH_SEED 0x444F4D41494E5F48
DomainHashSeedLow == 24392
\* thousandths per unit: (coord * 1000.0) as i64
Scale == 1000
\* base_step_size 3.0, in thousandths
BaseStepSize == 3000
\* step_variance 2.0, in thousandths
StepVariance == 2000
\* structure_bounds of a decoded engine, -30.0 and 30.0, in thousandths
MinBound == -30000
MaxBound == 30000
\* extra_chars_count of the setup profile: 8 output characters per input
ExtraCharsCount == 7
\* bytes of a domain fingerprint ([u8; 64])
HashLen == 64
\* fingerprint bytes fed to the engine by ghost navigation (for i in 0..8)
GhostBytes == 8
\* u16 counters
U16Max == 65535
\* DomainSlot::EMPTY / new slot: all 7 character types
AllCharTypes == 127

WordMod == 2 ^ WordBits
LcgMul == LcgMulLow % WordMod
LcgInc == LcgIncLow % WordMod
DOMAIN_HASH_SEED == DomainHashSeedLow % WordMod

\* the text between the quotes of "X", as character codes
Spelling(word) ==
    CASE word = "INIT" -> <<73, 78, 73, 84>>
      [] word = "RESET" -> <<82, 69, 83, 69, 84>>
      [] word = "FINALIZE" -> <<70, 73, 78, 65, 76, 73, 90, 69>>
      [] word = "GET_COUNTER" -> <<71, 69, 84, 95, 67, 79, 85, 78, 84, 69, 82>>
      [] word = "ACTIVATE" -> <<65, 67, 84, 73, 86, 65, 84, 69>>
      [] word = "ACTIVATE_PREVIEW" ->
           <<65, 67, 84, 73, 86, 65, 84, 69, 95, 80, 82, 69, 86, 73, 69, 87>>
      [] word = "SET_COUNTER" -> <<83, 69, 84, 95, 67, 79, 85, 78, 84, 69, 82>>
      [] word = "SET_RULES" -> <<83, 69, 84, 95, 82, 85, 76, 69, 83>>
      [] word = "COMMIT_INCREMENT" ->
           <<67, 79, 77, 77, 73, 84, 95, 73, 78, 67, 82, 69, 77, 69, 78, 84>>
      [] word = "CANCEL_PREVIEW" ->
           <<67, 65, 78, 67, 69, 76, 95, 80, 82, 69, 86, 73, 69, 87>>
      [] word = "type" -> <<116, 121, 112, 101>>
      [] OTHER -> <<>>

\* the domains of the requests: "a", "b", ... as character codes, and one
\* domain whose text is a command word
NumDomains == NumSlots + 1
PlainDomains == {<<96 + i>> : i \in 1..NumDomains}
Domains == PlainDomains \cup {Spelling("RESET")}

\* the character pool of the profile (keycodes of run_simple_setup, a sample)
CharacterSet == <<33, 48, 65, 97, 122, 300, 1024>>
\* original_seed of the profile
ProfileSeed == 4242 % WordMod

(***************************************************************************)
(* Arithmetic helpers                                                      *)
(***************************************************************************)
\* division truncating toward zero (f64 -> integer casts, fixed point)
TDiv(a, b) == IF a >= 0 THEN a \div b ELSE -((-a) \div b)

RECURSIVE XorBits(_, _, _)
XorBits(a, b, n) ==
    IF n = 0 THEN 0
    ELSE ((a + b) % 2) + 2 * XorBits(a \div 2, b \div 2, n - 1)

\* a ^ b on words
Xor(a, b) == XorBits(a % WordMod, b % WordMod, WordBits)

\* rng.wrapping_mul(6364136223846793005).wrapping_add(1442695040888963407)
Lcg(s) == (s * LcgMul + LcgInc) % WordMod

\* (rng as f64 / u64::MAX as f64) * 2.0 - 1.0, in thousandths
ToUnit(r) == (r * 2 * Scale) \div (WordMod - 1) - Scale

RECURSIVE ISqrtBetween(_, _, _)
ISqrtBetween(n, lo, hi) ==
    IF lo >= hi THEN lo
    ELSE LET mid == (lo + hi + 1) \div 2
         IN IF mid * mid <= n THEN ISqrtBetween(n, mid, hi)
            ELSE ISqrtBetween(n, lo, mid - 1)

\* f64::sqrt of a sum of Dim squares of thousandths
ISqrt(n) == ISqrtBetween(n, 0, Dim * Scale)

RECURSIVE SumSeq(_)
SumSeq(s) == IF s = <<>> THEN 0 ELSE Head(s) + SumSeq(Tail(s))

(***************************************************************************)
(* Structure engine.  An engine value is [pos, mem, seed]: current_position *)
(* (Dim coordinates), accumulated_path_memory and original_seed; the       *)
(* bounds, the step sizes and the character set do not change in the       *)
(* protocol loop.                                                          *)
(***************************************************************************)
Origin == [i \in 1..Dim |-> 0]

\* ContinuousPosition::hash_position
RECURSIVE hash_fold(_, _, _)
hash_fold(pos, h, i) ==
    IF i > Len(pos) THEN h
    ELSE hash_fold(pos, (h * 31 + pos[i]) % WordMod, i + 1)

hash_position(pos, seed) == hash_fold(pos, seed % WordMod, 1)

\* StructureSystem::reset_position
reset_position(st) == [st EXCEPT !.mem = 0]

\* full_reset moving the cursor half way to the origin
full_reset_halved(st) ==
    [st EXCEPT !.pos = [i \in 1..Dim |-> TDiv(st.pos[i], 2)], !.mem = 0]

\* StructureSystem::full_reset
full_reset(st) == [st EXCEPT !.pos = Origin, !.mem = 0]

\* the rng draws of generate_direction, one per axis
RECURSIVE direction_draws(_, _)
direction_draws(rng, n) ==
    IF n = 0 THEN <<>>
    ELSE <<ToUnit(Lcg(rng))>> \o direction_draws(Lcg(rng), n - 1)

\* generate_direction: value /= magnitude when magnitude > 0.0
normalize_by(raw, magnitude) ==
    IF magnitude > 0
    THEN [i \in 1..Dim |-> TDiv(raw[i] * Scale, magnitude)]
    ELSE raw

\* generate_direction: magnitude = sqrt of the sum of squares
normalize(raw) ==
    normalize_by(raw, ISqrt(SumSeq([i \in 1..Dim |-> raw[i] * raw[i]])))

\* StructureSystem::generate_direction
generate_direction(seed) == normalize(direction_draws(seed, Dim))

\* StructureSystem::generate_distance
generate_distance(seed) ==
    BaseStepSize + TDiv(ToUnit(Lcg(seed)) * StepVariance, Scale)

\* calculate_movement: direction and distance of a movement seed
movement_of(movement_seed) ==
    [direction |-> generate_direction(movement_seed),
     distance |-> generate_distance(movement_seed)]

\* StructureSystem::calculate_movement
calculate_movement(st, keycode) ==
    movement_of(Xor(Xor(st.seed, hash_position(st.pos, st.seed)), keycode))

\* a candidate coordinate held at the bound it passed
reflect_clamped(new_coord) ==
    IF new_coord < MinBound THEN MinBound
    ELSE IF new_coord > MaxBound THEN MaxBound
    ELSE new_coord

\* the reflection of one candidate coordinate in update_position
reflect(new_coord) ==
    IF new_coord < MinBound THEN MinBound + (MinBound - new_coord)
    ELSE IF new_coord > MaxBound THEN MaxBound - (new_coord - MaxBound)
    ELSE new_coord

\* update_position: accumulated_path_memory.wrapping_add(coord_sum as u8)
with_path_memory(st, newpos) ==
    [st EXCEPT !.pos = newpos,
               !.mem = (st.mem + SumSeq([i \in 1..Dim |->
                                           TDiv(newpos[i], Scale)])) % 256]

\* StructureSystem::update_position
update_position(st, direction, distance) ==
    with_path_memory(st,
        [i \in 1..Dim |->
           reflect(st.pos[i] + TDiv(direction[i] * distance, Scale))])

\* StructureSystem::apply_path_memory_to_character
apply_path_memory_to_character(st, base_char_index) ==
    CharacterSet[1 + (IF st.mem % 2 = 0
                      THEN (base_char_index + 1) % Len(CharacterSet)
                      ELSE (base_char_index + Len(CharacterSet) - 1)
                               % Len(CharacterSet))]

\* generate_output_from_path: the point at fraction k / total_chars
path_position(start, direction, distance, k, total_chars) ==
    [d \in 1..Dim |->
       start[d] + TDiv(direction[d] * distance * k, Scale * total_chars)]

\* StructureSystem::generate_output_from_path
generate_output_from_path(st, start, direction, distance, extra_chars_count) ==
    [k \in 1..(extra_chars_count + 1) |->
       apply_path_memory_to_character(st,
           hash_position(path_position(start, direction, distance, k - 1,
                                       extra_chars_count + 1), st.seed)
           % Len(CharacterSet))]

\* transform_char after calculate_movement: the move, then the output
transform_along(st, mv, extra_chars_count) ==
    [st |-> update_position(st, mv.direction, mv.distance),
     out |-> generate_output_from_path(
                 update_position(st, mv.direction, mv.distance), st.pos,
                 mv.direction, mv.distance, extra_chars_count)]

\* StructureSystem::transform_char: the engine after the move and the output
transform_char(st, keycode, extra_chars_count) ==
    transform_along(st, calculate_movement(st, keycode), extra_chars_count)

\* the engine after transform_char on each code of a sequence, output dropped
RECURSIVE navigate(_, _)
navigate(st, codes) ==
    IF codes = <<>> THEN st
    ELSE navigate(transform_char(st, Head(codes), 0).st, Tail(codes))

Take(s, n) == IF Len(s) <= n THEN s ELSE SubSeq(s, 1, n)

\* hash_bytes.push((code % 256) as u8) until 64 bytes are collected
push_codes(hash_bytes, codes) ==
    Take(hash_bytes \o [k \in 1..Len(codes) |-> codes[k] % 256], HashLen)

RECURSIVE hash_chars(_, _, _)
\* hash_domain: the bytes one transform_char adds, then the next character
hash_chars_next(t, rest, hash_bytes) ==
    hash_chars(t.st, rest, push_codes(hash_bytes, t.out))

\* hash_domain: for ch in domain.chars()
hash_chars(st, domain, hash_bytes) ==
    IF domain = <<>> \/ Len(hash_bytes) >= HashLen
    THEN [st |-> st, hash_bytes |-> hash_bytes]
    ELSE hash_chars_next(transform_char(st, Head(domain), 7), Tail(domain),
                         hash_bytes)

RECURSIVE hash_pad(_, _)
hash_pad_next(t, hash_bytes) == hash_pad(t.st, push_codes(hash_bytes, t.out))

\* hash_domain: while hash_bytes.len() < 64, pad with code 0
hash_pad(st, hash_bytes) ==
    IF Len(hash_bytes) >= HashLen
    THEN [st |-> st, hash_bytes |-> hash_bytes]
    ELSE hash_pad_next(transform_char(st, 0, 7), hash_bytes)

hash_pad_from(walked) == hash_pad(walked.st, walked.hash_bytes)

\* hash_domain between full_reset and the restore: the walk over the domain
\* and the padding
hash_walk(hashing, domain) == hash_pad_from(hash_chars(hashing, domain, <<>>))

\* the engine hash_domain starts every walk from
HashStart == [pos |-> Origin, mem |-> 0, seed |-> DOMAIN_HASH_SEED]

\* value table of hash_walk(HashStart, d), computed once
HashWalkTable == [d \in Domains |-> hash_walk(HashStart, d)]

\* hash_walk, read from the value table where it has the arguments
hash_walk_of(hashing, domain) ==
    IF hashing = HashStart /\ domain \in Domains
    THEN HashWalkTable[domain]
    ELSE hash_walk(hashing, domain)

\* hash_domain setting back original_seed and current_position only
hash_restore_cursor(saved, walked) ==
    [hash |-> walked.hash_bytes,
     st |-> [walked.st EXCEPT !.seed = saved.seed, !.pos = saved.pos]]

\* hash_domain: original_seed, current_position and accumulated_path_memory
\* set back to the saved values; the 64 bytes returned
hash_restore(saved, walked) ==
    [hash |-> walked.hash_bytes,
     st |-> [walked.st EXCEPT !.seed = saved.seed, !.pos = saved.pos,
                              !.mem = saved.mem]]

\* hash_domain walking from the cursor it is called at
hash_domain_from_cursor(st, domain) ==
    hash_restore(st,
        hash_walk_of(reset_position([st EXCEPT !.seed = DOMAIN_HASH_SEED]),
                     domain))

\* StructureSystem::hash_domain: the fingerprint and the engine it leaves
hash_domain(st, domain) ==
    hash_restore(st,
        hash_walk_of(full_reset([st EXCEPT !.seed = DOMAIN_HASH_SEED]),
                     domain))

(***************************************************************************)
(* Domain table.  Option values: None is <<>>, Some(x) is <<x>>.           *)
(***************************************************************************)
None == <<>>
Some(x) == <<x>>

\* [0u8; 64]
ZeroHash == [i \in 1..HashLen |-> 0]

\* DomainSlot::EMPTY
EMPTY == [domain_hash |-> ZeroHash, counter |-> 0, max_length |-> 0,
          char_types |-> AllCharTypes]

\* DomainSlot::is_empty
is_empty(slot) == slot.domain_hash = ZeroHash

\* DomainTable::new
DomainTable_new == [i \in 1..NumSlots |-> EMPTY]

\* Iterator::position: the first index satisfying the test
first_index(S) == IF S = {} THEN None
                  ELSE Some(CHOOSE i \in S : \A j \in S : i <= j)

\* find_slot_by_hash passing over the slots whose counter is 0
find_slot_by_hash_counted(table, hash) ==
    first_index({i \in 1..NumSlots :
                   /\ ~is_empty(table[i])
                   /\ table[i].counter > 0
                   /\ table[i].domain_hash = hash})

\* DomainTable::find_slot_by_hash
find_slot_by_hash(table, hash) ==
    first_index({i \in 1..NumSlots :
                   ~is_empty(table[i]) /\ table[i].domain_hash = hash})

\* get_counter after hash_domain: the counter of the slot found
counter_of(table, idx) ==
    IF idx = None THEN None ELSE Some(table[idx[1]].counter)

get_counter_at(table, h) ==
    [val |-> counter_of(table, find_slot_by_hash(table, h.hash)), st |-> h.st]

\* DomainTable::get_counter: Option<u16>, and the engine hash_domain leaves
get_counter(table, st, domain) == get_counter_at(table, hash_domain(st, domain))

\* the first empty slot, or the first slot when none is empty
first_free_or_first(table) ==
    IF \A i \in 1..NumSlots : ~is_empty(table[i]) THEN Some(1)
    ELSE first_index({i \in 1..NumSlots : is_empty(table[i])})

\* the first empty slot
first_free(table) == first_index({i \in 1..NumSlots : is_empty(table[i])})

\* set_counter after hash_domain and the two searches: update, claim a
\* slot, or fail
set_counter_in(table, h, counter, idx, free) ==
    IF idx # None
    THEN [ok |-> TRUE, st |-> h.st,
          table |-> [table EXCEPT ![idx[1]].counter = counter]]
    ELSE IF free # None
    THEN [ok |-> TRUE, st |-> h.st,
          table |-> [table EXCEPT ![free[1]] =
                       [domain_hash |-> h.hash, counter |-> counter,
                        max_length |-> 0, char_types |-> AllCharTypes]]]
    ELSE [ok |-> FALSE, st |-> h.st, table |-> table]

\* set_counter claiming a slot without the search for the fingerprint
set_counter_at_unsearched(table, h, counter) ==
    set_counter_in(table, h, counter, None, first_free(table))

set_counter_at(table, h, counter) ==
    set_counter_in(table, h, counter, find_slot_by_hash(table, h.hash),
                   first_free(table))

\* set_counter writing only into a slot it claims
set_counter_once(table, st, domain, counter) ==
    IF find_slot_by_hash(table, hash_domain(st, domain).hash) # None
    THEN [ok |-> TRUE, st |-> hash_domain(st, domain).st, table |-> table]
    ELSE set_counter_at(table, hash_domain(st, domain), counter)

\* DomainTable::set_counter
set_counter(table, st, domain, counter) ==
    set_counter_at(table, hash_domain(st, domain), counter)

\* u16::wrapping_add(1)
wrapping_add1(c) == (c + 1) % (U16Max + 1)

\* u16::saturating_add(1)
saturating_add1(c) == IF c >= U16Max THEN U16Max ELSE c + 1

\* get_counter(domain).unwrap_or(0)
unwrap_or_0(opt) == IF opt = None THEN 0 ELSE opt[1]

increment_result(r, new_counter) ==
    [ok |-> r.ok, st |-> r.st, table |-> r.table, val |-> new_counter]

increment_from(table, domain, g) ==
    increment_result(
        set_counter(table, g.st, domain, saturating_add1(unwrap_or_0(g.val))),
        saturating_add1(unwrap_or_0(g.val)))

\* DomainTable::increment_counter
increment_counter(table, st, domain) ==
    increment_from(table, domain, get_counter(table, st, domain))

\* get_rules after hash_domain: the rules of the slot found
rules_of(table, idx) ==
    IF idx = None THEN None
    ELSE Some(<<table[idx[1]].max_length, table[idx[1]].char_types>>)

get_rules_at(table, h) ==
    [val |-> rules_of(table, find_slot_by_hash(table, h.hash)), st |-> h.st]

\* DomainTable::get_rules: Option<(u16, u8)>
get_rules(table, st, domain) == get_rules_at(table, hash_domain(st, domain))

\* set_rules after hash_domain and the two searches
set_rules_in(table, h, max_length, char_types, idx, free) ==
    IF idx # None
    THEN [ok |-> TRUE, st |-> h.st,
          table |-> [table EXCEPT ![idx[1]].max_length = max_length,
                                  ![idx[1]].char_types = char_types]]
    ELSE IF free # None
    THEN [ok |-> TRUE, st |-> h.st,
          table |-> [table EXCEPT ![free[1]] =
                       [domain_hash |-> h.hash, counter |-> 0,
                        max_length |-> max_length,
                        char_types |-> char_types]]]
    ELSE [ok |-> FALSE, st |-> h.st, table |-> table]

set_rules_at(table, h, max_length, char_types) ==
    set_rules_in(table, h, max_length, char_types,
                 find_slot_by_hash(table, h.hash), first_free(table))

\* set_rules writing a whole slot, counter 0, also over an existing one
set_rules_fresh(table, st, domain, max_length, char_types) ==
    set_rules_in([i \in 1..NumSlots |->
                    IF table[i].domain_hash = hash_domain(st, domain).hash
                    THEN [table[i] EXCEPT !.counter = 0] ELSE table[i]],
                 hash_domain(st, domain), max_length, char_types,
                 find_slot_by_hash(table, hash_domain(st, domain).hash),
                 first_free(table))

\* DomainTable::set_rules
set_rules(table, st, domain, max_length, char_types) ==
    set_rules_at(table, hash_domain(st, domain), max_length, char_types)

\* SessionState::empty
SessionState_empty ==
    [active_domain_hash |-> None, saved_counter |-> 0, active_counter |-> 0,
     is_preview_mode |-> FALSE, initialized |-> FALSE]

(***************************************************************************)
(* The executable file and its rewrite.  A file is [data, mode]; data is a *)
(* sequence of byte runs [k, v]: the program image, a marker, the table    *)
(* blob or a field of a profile entry.  The three paths of a rewrite are   *)
(* the fields exe, bak (with_extension("bak")) and new                     *)
(* (with_extension("new")) of the file system value.                       *)
(***************************************************************************)
NoFile == [data |-> <<>>, mode |-> "none"]
exists(f) == f.mode # "none"

Run(k, v) == [k |-> k, v |-> v]
\* the program image before the appended region
IMAGE == Run("IMAGE", <<>>)
\* generate_markers: section, start, end, name, description
SECTION_MARKER == Run("SM", <<>>)
START_MARKER == Run("ST", <<>>)
END_MARKER == Run("EN", <<>>)
NAME_MARKER == Run("NM", <<>>)
DESC_MARKER == Run("DS", <<>>)
\* b"__DOMAIN_TABLE_START__"
DOMAIN_TABLE_START_MARKER == Run("TM", <<>>)
\* the raw bytes of a DomainTable
table_bytes(table) == Run("TBL", table)

\* File::create on the executable path itself: the rewrite done in place
create_over_executable(fs) ==
    [fs EXCEPT !.exe = [data |-> <<>>, mode |-> "rw"]]

\* File::create(&temp_path)
create_temp(fs) == [fs EXCEPT !.new = [data |-> <<>>, mode |-> "rw"]]

\* new_file.write_all(..)
write_temp(fs, content) == [fs EXCEPT !.new.data = content]

\* fs::set_permissions(&temp_path, mode of the executable)
copy_permissions(fs) == [fs EXCEPT !.new.mode = fs.exe.mode]

\* fs::rename(&self.executable_path, &backup_path)
rename_to_backup(fs) == [fs EXCEPT !.bak = fs.exe, !.exe = NoFile]

\* fs::rename(&temp_path, &self.executable_path)
rename_to_original(fs) == [fs EXCEPT !.exe = fs.new, !.new = NoFile]

\* let _ = fs::rename(&backup_path, &self.executable_path)
restore_backup(fs) ==
    IF exists(fs.bak) THEN [fs EXCEPT !.exe = fs.bak, !.bak = NoFile] ELSE fs

\* the steps of a rewrite, in order; an I/O fault names the step that fails
RewriteSteps == <<"open", "create", "write", "perms", "backup", "replace">>
Faults == {"none"} \cup {RewriteSteps[i] : i \in 1..Len(RewriteSteps)}
\* the faults injected into the saves of the protocol loop
LoopFaults == {"none", "replace"}

\* temp file written, permissions copied, backup rename, final rename; the
\* file system left behind when the step named by fault fails
run_rewrite(fs, content, fault, restore) ==
    LET s1 == create_temp(fs)
        s2 == write_temp(s1, content)
        s3 == copy_permissions(s2)
        s4 == rename_to_backup(s3)
        s5 == rename_to_original(s4)
    IN CASE fault = "create" -> [fs |-> fs, ok |-> FALSE]
         [] fault = "write" -> [fs |-> s1, ok |-> FALSE]
         [] fault = "perms" -> [fs |-> s2, ok |-> FALSE]
         [] fault = "backup" -> [fs |-> s3, ok |-> FALSE]
         [] fault = "replace" ->
              [fs |-> IF restore THEN restore_backup(s4) ELSE s4, ok |-> FALSE]
         [] OTHER -> [fs |-> s5, ok |-> TRUE]

(***************************************************************************)
(* The bytes of the appended region.  Every marker is a tag between two    *)
(* zero bytes (generate_marker: prefix "\0XX", keystream, then 0); a name  *)
(* and a description are written as their bytes and a zero byte.  A byte   *)
(* of 128 or more stands for a sequence that is not UTF-8.                 *)
(***************************************************************************)
marker_bytes(run) ==
    CASE run.k = "SM" -> <<0, 201, 0>>
      [] run.k = "ST" -> <<0, 202, 0>>
      [] run.k = "EN" -> <<0, 203, 0>>
      [] run.k = "NM" -> <<0, 204, 0>>
      [] run.k = "DS" -> <<0, 205, 0>>
      [] run.k = "TM" -> <<95, 68, 84>>
      [] OTHER -> <<>>

\* the bytes a run of the file stands for; the table blob by one byte per
\* slot, the stored counter's low byte
run_bytes(run) ==
    CASE run.k = "IMAGE" -> <<127, 69, 76, 70>>
      [] run.k = "TBL" -> [i \in 1..Len(run.v) |-> run.v[i].counter % 256]
      [] run.k \in {"NM", "DS"} -> marker_bytes(run) \o run.v
      [] run.k = "DATA" -> run.v
      [] OTHER -> marker_bytes(run)

RECURSIVE file_bytes(_)
\* read_to_end: the whole file as bytes
file_bytes(data) ==
    IF data = <<>> THEN <<>>
    ELSE run_bytes(Head(data)) \o file_bytes(Tail(data))

\* the byte at which run i of a buffer starts
offset_of(buffer, i) == Len(file_bytes(SubSeq(buffer, 1, i - 1)))

\* save_to_binary / load_from_binary: search_start, SearchWindow bytes
\* before the end of a buffer of n bytes
search_start(n) == IF n > SearchWindow THEN n - SearchWindow ELSE 0

\* the last index from byte start on of a run k in a buffer (the backward
\* marker scan)
last_index(buffer, k, start) ==
    LET S == {i \in 1..Len(buffer) :
                 buffer[i].k = k.k /\ offset_of(buffer, i) >= start}
    IN IF S = {} THEN None ELSE Some(CHOOSE i \in S : \A j \in S : j <= i)

\* the marker scan reaching back to the start of the file
table_marker_pos_unbounded(buffer) ==
    IF buffer = <<>> THEN None
    ELSE last_index(SubSeq(buffer, 1, Len(buffer) - 1),
                    DOMAIN_TABLE_START_MARKER, 0)

\* save_to_binary / load_from_binary: the marker scan, from search_start
\* on; the scan stops before the last marker-length bytes, so a marker
\* ending the file is not found
table_marker_pos(buffer) ==
    IF buffer = <<>> THEN None
    ELSE last_index(SubSeq(buffer, 1, Len(buffer) - 1),
                    DOMAIN_TABLE_START_MARKER,
                    search_start(Len(file_bytes(buffer))))

\* save_to_binary: the buffer with the table bytes copied over the blob
save_content(buffer, marker_pos, table) ==
    [buffer EXCEPT ![marker_pos + 1] = table_bytes(table)]

\* DomainTable::save_to_binary
save_to_binary(fs, table, fault) ==
    IF ~exists(fs.exe) \/ fault = "open" THEN [fs |-> fs, ok |-> FALSE]
    ELSE LET buffer == fs.exe.data
             marker_pos == table_marker_pos(buffer)
         IN IF marker_pos = None THEN [fs |-> fs, ok |-> FALSE]
            ELSE run_rewrite(fs, save_content(buffer, marker_pos[1], table),
                             fault, FALSE)

\* DomainTable::load_from_binary: the table after the load
load_from_binary(fs, table) ==
    IF ~exists(fs.exe) THEN table
    ELSE LET buffer == fs.exe.data
             marker_pos == table_marker_pos(buffer)
         IN IF marker_pos # None /\ buffer[marker_pos[1] + 1].k = "TBL"
            THEN buffer[marker_pos[1] + 1].v
            ELSE table

\* append_end_marker: vec![0u8; size_of::<DomainTable>()], every byte of
\* every slot zero
empty_table == [i \in 1..NumSlots |-> [EMPTY EXCEPT !.char_types = 0]]

\* append_end_marker: the bytes written to the temp file
append_content(buffer) ==
    buffer \o <<SECTION_MARKER, DOMAIN_TABLE_START_MARKER,
                table_bytes(empty_table)>>

\* store writing a name with no zero byte after it
profile_entry_unterminated(name, data, description) ==
    <<START_MARKER, Run("NM", name), Run("DATA", data), END_MARKER,
      Run("DS", description \o <<0>>)>>

\* store: one profile entry
profile_entry(name, data, description) ==
    <<START_MARKER, Run("NM", name \o <<0>>), Run("DATA", data), END_MARKER,
      Run("DS", description \o <<0>>)>>

\* store: has_section_marker / section_start_pos
section_start_pos(buffer) ==
    IF buffer # <<>> /\ buffer[Len(buffer)].k = SECTION_MARKER.k
    THEN Len(buffer) - 1 ELSE Len(buffer)

RECURSIVE entries_of(_, _, _)
entries_of(order, cache, metadata) ==
    IF order = <<>> THEN <<>>
    ELSE profile_entry(Head(order), cache[Head(order)], metadata[Head(order)])
         \o entries_of(Tail(order), cache, metadata)

\* store: the bytes written to the temp file; order is the iteration order
\* of in_memory_cache over the other names
store_content(buffer, order, cache, metadata, name, description, data) ==
    SubSeq(buffer, 1, section_start_pos(buffer))
    \o entries_of(order, cache, metadata)
    \o profile_entry(name, data, description)
    \o <<SECTION_MARKER>>

(***************************************************************************)
(* Loading the profiles from the bytes of the executable.                  *)
(***************************************************************************)
\* &buffer[a..b]
slice(buffer, a, b) == SubSeq(buffer, a + 1, b)

\* BinaryStorageManager::find_pattern
find_pattern(haystack, needle) ==
    LET hits == {i \in 0..(Len(haystack) - Len(needle)) :
                    slice(haystack, i, i + Len(needle)) = needle}
    IN IF hits = {} THEN None
       ELSE Some(CHOOSE i \in hits : \A j \in hits : i <= j)

\* .iter().position(|&b| b == 0)
position_nul(bytes) ==
    LET hits == {i \in 1..Len(bytes) : bytes[i] = 0}
    IN IF hits = {} THEN None
       ELSE Some((CHOOSE i \in hits : \A j \in hits : i <= j) - 1)

\* std::str::from_utf8(..).is_ok()
is_utf8(bytes) == \A i \in 1..Len(bytes) : bytes[i] < 128

is_whitespace(b) == b \in {9, 10, 13, 32}

RECURSIVE trim_start(_)
trim_start(s) ==
    IF s # <<>> /\ is_whitespace(Head(s)) THEN trim_start(Tail(s)) ELSE s

RECURSIVE trim_end(_)
trim_end(s) ==
    IF s # <<>> /\ is_whitespace(s[Len(s)])
    THEN trim_end(SubSeq(s, 1, Len(s) - 1)) ELSE s

\* str::trim
trim(s) == trim_end(trim_start(s))

RECURSIVE password_positions(_, _, _)
\* load_all_passwords: the start markers between current_pos and the
\* section marker, in file order
password_positions(buffer, current_pos, section_start) ==
    IF current_pos >= section_start THEN <<>>
    ELSE LET hit == find_pattern(slice(buffer, current_pos, section_start),
                                 marker_bytes(START_MARKER))
         IN IF hit = None THEN <<>>
            ELSE <<current_pos + hit[1]>>
                 \o password_positions(buffer,
                        current_pos + hit[1] + Len(marker_bytes(START_MARKER)),
                        section_start)

\* load_all_passwords, one entry: the description, from desc_marker_pos on
entry_description(buffer, section_start, name, data, desc_marker_pos, nul) ==
    IF nul = None THEN None
    ELSE IF ~is_utf8(slice(buffer, desc_marker_pos, desc_marker_pos + nul[1]))
    THEN None
    ELSE Some([name |-> name, data |-> data,
               description |->
                   trim(slice(buffer, desc_marker_pos,
                              desc_marker_pos + nul[1]))])

\* load_all_passwords, one entry: the description marker after the end
\* marker
entry_desc_marker(buffer, section_start, name, data, desc_marker_start, hit) ==
    IF hit = None THEN None
    ELSE entry_description(buffer, section_start, name, data,
             desc_marker_start + hit[1] + Len(marker_bytes(DESC_MARKER)),
             position_nul(slice(buffer,
                 desc_marker_start + hit[1] + Len(marker_bytes(DESC_MARKER)),
                 section_start)))

\* load_all_passwords, one entry: the payload between data_start and the
\* end marker; an empty one is skipped
entry_data(buffer, section_start, name, data_start, hit) ==
    IF hit = None THEN None
    ELSE IF hit[1] <= 0 THEN None
    ELSE entry_desc_marker(buffer, section_start, name,
             slice(buffer, data_start, data_start + hit[1]),
             data_start + hit[1] + Len(marker_bytes(END_MARKER)),
             find_pattern(
                 slice(buffer,
                       data_start + hit[1] + Len(marker_bytes(END_MARKER)),
                       section_start),
                 marker_bytes(DESC_MARKER)))

\* load_all_passwords, one entry: the name, from name_marker_pos to its
\* zero byte
entry_name(buffer, section_start, name_marker_pos, nul) ==
    IF nul = None THEN None
    ELSE IF ~is_utf8(slice(buffer, name_marker_pos, name_marker_pos + nul[1]))
    THEN None
    ELSE entry_data(buffer, section_start,
             trim(slice(buffer, name_marker_pos, name_marker_pos + nul[1])),
             name_marker_pos + nul[1] + 1,
             find_pattern(slice(buffer, name_marker_pos + nul[1] + 1,
                                section_start),
                          marker_bytes(END_MARKER)))

\* load_all_passwords, one entry: the name marker after the start marker
entry_name_marker(buffer, section_start, current_pos, hit) ==
    IF hit = None THEN None
    ELSE entry_name(buffer, section_start,
             current_pos + hit[1] + Len(marker_bytes(NAME_MARKER)),
             position_nul(slice(buffer,
                 current_pos + hit[1] + Len(marker_bytes(NAME_MARKER)),
                 section_start)))

\* load_all_passwords, the body of the loop over password_positions: the
\* entry loaded from start_pos, None when it is skipped
load_entry(buffer, section_start, start_pos) ==
    entry_name_marker(buffer, section_start,
        start_pos + Len(marker_bytes(START_MARKER)),
        find_pattern(slice(buffer, start_pos + Len(marker_bytes(START_MARKER)),
                           section_start),
                     marker_bytes(NAME_MARKER)))

\* HashMap::insert
insert(map, key, value) ==
    [k \in (DOMAIN map) \cup {key} |-> IF k = key THEN value ELSE map[k]]

NoCaches == [in_memory_cache |-> <<>>, metadata_cache |-> <<>>]

\* the two inserts that end the loop body
insert_entry(caches, e) ==
    IF e = None THEN caches
    ELSE [in_memory_cache |->
              insert(caches.in_memory_cache, e[1].name, e[1].data),
          metadata_cache |->
              insert(caches.metadata_cache, e[1].name, e[1].description)]

RECURSIVE load_entries(_, _, _, _)
load_entries(buffer, section_start, positions, caches) ==
    IF positions = <<>> THEN caches
    ELSE load_entries(buffer, section_start, Tail(positions),
             insert_entry(caches,
                          load_entry(buffer, section_start, Head(positions))))

\* load_all_passwords on the bytes of the executable
load_buffer(buffer) ==
    IF Len(buffer) < Len(marker_bytes(SECTION_MARKER)) THEN NoCaches
    ELSE IF slice(buffer, Len(buffer) - Len(marker_bytes(SECTION_MARKER)),
                  Len(buffer)) # marker_bytes(SECTION_MARKER)
    THEN NoCaches
    ELSE load_entries(buffer,
             Len(buffer) - Len(marker_bytes(SECTION_MARKER)),
             password_positions(buffer, 0,
                 Len(buffer) - Len(marker_bytes(SECTION_MARKER))),
             NoCaches)

\* BinaryStorageManager::load_all_passwords: the caches after the load
load_all_passwords(fs) ==
    IF ~exists(fs.exe) THEN NoCaches ELSE load_buffer(file_bytes(fs.exe.data))

(***************************************************************************)
(* The payload of a profile: SavedPassword::to_bytes / from_bytes.  The    *)
(* structure system is carried as its own bytes, which from_bytes hands to *)
(* StructureSystem::from_bytes whole.                                      *)
(***************************************************************************)
\* (n as u32).to_ne_bytes(), little-endian
u32_bytes(n) ==
    <<n % 256, (n \div 256) % 256, (n \div 65536) % 256,
      (n \div 16777216) % 256>>

\* n.to_ne_bytes() of a u64 below 2^32
u64_bytes(n) == u32_bytes(n) \o <<0, 0, 0, 0>>

\* u32::from_ne_bytes of the four bytes at offset
u32_at(bytes, offset) ==
    bytes[offset + 1] + 256 * bytes[offset + 2] + 65536 * bytes[offset + 3]
    + 16777216 * bytes[offset + 4]

\* SavedPassword::to_bytes
to_bytes(password) ==
    u32_bytes(Len(password.name)) \o password.name
    \o u32_bytes(Len(password.description)) \o password.description
    \o u64_bytes(password.created_date)
    \o u32_bytes(password.extra_chars_count)
    \o u32_bytes(Len(password.structure_system))
    \o password.structure_system

Ok(value) == [kind |-> "Ok", value |-> value]
Err(text) == [kind |-> "Err", value |-> text]
\* an index out of bounds: the thread panics
Panic == [kind |-> "panic", value |-> "index out of bounds"]

\* from_bytes: the structure system, at offset after its length
decode_structure(bytes, offset, name, description, created_date, extra) ==
    IF Len(bytes) < offset + 4
    THEN Err("Invalid data: not enough bytes for Structure system length")
    ELSE IF Len(bytes) < offset + 4 + u32_at(bytes, offset)
    THEN Err("Invalid data: not enough bytes for Structure system")
    ELSE Ok([name |-> name, description |-> description,
             created_date |-> created_date, extra_chars_count |-> extra,
             structure_system |->
                 slice(bytes, offset + 4,
                       offset + 4 + u32_at(bytes, offset))])

\* from_bytes: created_date, then extra_chars_count with its default of 3
decode_date(bytes, offset, name, description) ==
    IF Len(bytes) < offset + 8
    THEN Err("Invalid data: not enough bytes for created date")
    ELSE IF Len(bytes) >= offset + 8 + 4
    THEN decode_structure(bytes, offset + 8 + 4, name, description,
                          u32_at(bytes, offset), u32_at(bytes, offset + 8))
    ELSE decode_structure(bytes, offset + 8, name, description,
                          u32_at(bytes, offset), 3)

\* from_bytes: the description, at offset
decode_description(bytes, offset, name) ==
    IF Len(bytes) < offset + 4
    THEN Err("Invalid data: not enough bytes for description length")
    ELSE IF Len(bytes) < offset + 4 + u32_at(bytes, offset)
    THEN Err("Invalid data: not enough bytes for description")
    ELSE IF ~is_utf8(slice(bytes, offset + 4,
                           offset + 4 + u32_at(bytes, offset)))
    THEN Err("Invalid UTF-8 in description")
    ELSE decode_date(bytes, offset + 4 + u32_at(bytes, offset), name,
                     slice(bytes, offset + 4,
                           offset + 4 + u32_at(bytes, offset)))

\* SavedPassword::from_bytes: the four bytes of name_len are read before
\* any length check
from_bytes(bytes) ==
    IF Len(bytes) < 4 THEN Panic
    ELSE IF Len(bytes) < 4 + u32_at(bytes, 0)
    THEN Err("Invalid data: not enough bytes for name")
    ELSE IF ~is_utf8(slice(bytes, 4, 4 + u32_at(bytes, 0)))
    THEN Err("Invalid UTF-8 in name")
    ELSE decode_description(bytes, 4 + u32_at(bytes, 0),
                            slice(bytes, 4, 4 + u32_at(bytes, 0)))

\* the iteration orders of in_memory_cache over a set of names
Orders(S) ==
    {o \in [1..Cardinality(S) -> S] :
        \A i, j \in 1..Cardinality(S) : i # j => o[i] # o[j]}

\* PasswordManager::load_all_passwords, the body of its loop: a profile
\* that decodes is pushed with the description of the metadata cache, one
\* that does not is reported and left out
push_password(acc, decoded, description) ==
    IF acc.kind = "panic" \/ decoded.kind = "Err" THEN acc
    ELSE IF decoded.kind = "panic" THEN Panic
    ELSE Ok(Append(acc.value,
                   [decoded.value EXCEPT !.description = description]))

RECURSIVE load_passwords(_, _, _, _)
\* PasswordManager::load_all_passwords over list_all() in its order
load_passwords(cache, metadata, order, acc) ==
    IF order = <<>> THEN acc
    ELSE load_passwords(cache, metadata, Tail(order),
             push_password(acc, from_bytes(cache[Head(order)]),
                           metadata[Head(order)]))

(***************************************************************************)
(* Protocol messages.  A message is the set of its fields; an absent field *)
(* is <<>>, a present one <<value>>; framed is FALSE when read_exact      *)
(* failed and there is no message.  A domain is a sequence of character    *)
(* codes.  The quoted strings of a message text are its keys, its type    *)
(* and its domain, so the text contains "\"X\"" when the type or the domain *)
(* is X.                                                                   *)
(***************************************************************************)
BlankMessage ==
    [framed |-> TRUE, utf8 |-> TRUE, type |-> <<>>, domain |-> <<>>,
     counter |-> <<>>, max_length |-> <<>>, char_types |-> <<>>,
     charCode |-> <<>>]

\* no message: nothing read yet, or read_exact failed
NoMessage == [BlankMessage EXCEPT !.framed = FALSE]

\* no domain key, "domain":"", or a domain
DomainFields == {<<>>, << <<>> >>} \cup {<<d>> : d \in Domains}
CounterFields == {<<65534>>, <<65541>>}
CharCodeFields == {<<>>, <<0>>, <<65>>}

Messages ==
    {[BlankMessage EXCEPT !.type = <<t>>] :
        t \in {"INIT", "RESET", "FINALIZE", "CANCEL_PREVIEW", "PING"}}
    \cup {[BlankMessage EXCEPT !.type = <<t>>, !.domain = d] :
        t \in {"GET_COUNTER", "ACTIVATE", "ACTIVATE_PREVIEW",
               "COMMIT_INCREMENT"},
        d \in DomainFields}
    \cup {[BlankMessage EXCEPT !.type = <<"SET_COUNTER">>, !.domain = d,
                               !.counter = c] :
        d \in DomainFields, c \in CounterFields}
    \cup {[BlankMessage EXCEPT !.type = <<"SET_RULES">>, !.domain = d,
                               !.max_length = <<16>>, !.char_types = <<300>>] :
        d \in DomainFields}
    \cup {[BlankMessage EXCEPT !.charCode = c] : c \in CharCodeFields}
    \cup {[BlankMessage EXCEPT !.type = <<"PING">>, !.charCode = <<65>>]}
    \cup {[BlankMessage EXCEPT !.utf8 = FALSE]}

\* message.contains("\"X\""): X is the type or the domain of the message
contains(m, word) == m.type = <<word>> \/ m.domain = <<Spelling(word)>>

\* message.contains("\"type\""): the key, or a domain spelled type
has_type(m) == m.type # <<>> \/ contains(m, "type")

\* extract_json_string: "" when the key is absent
extract_json_string(m, key) == IF m[key] = <<>> THEN <<>> ELSE m[key][1]

\* extract_json_number: 0 when the key is absent or the text is not a u64
extract_json_number(m, key) ==
    IF m[key] = <<>> \/ m[key][1] < 0 THEN 0 ELSE m[key][1]

\* counter as u16
as_u16(n) == n % 65536
\* char_types as u8
as_u8(n) == n % 256

\* the branch of the loop body that run_json_io_mode takes for a message
branch(m) ==
    IF ~m.utf8 THEN "invalid_utf8"
    ELSE IF ~has_type(m) THEN "keystroke"
    ELSE IF contains(m, "INIT") THEN "INIT"
    ELSE IF contains(m, "RESET") THEN "RESET"
    ELSE IF contains(m, "FINALIZE") THEN "FINALIZE"
    ELSE IF contains(m, "GET_COUNTER") THEN "GET_COUNTER"
    ELSE IF contains(m, "ACTIVATE") /\ ~contains(m, "ACTIVATE_PREVIEW")
         THEN "ACTIVATE"
    ELSE IF contains(m, "ACTIVATE_PREVIEW") THEN "ACTIVATE_PREVIEW"
    ELSE IF contains(m, "SET_COUNTER") THEN "SET_COUNTER"
    ELSE IF contains(m, "SET_RULES") THEN "SET_RULES"
    ELSE IF contains(m, "COMMIT_INCREMENT") THEN "COMMIT_INCREMENT"
    ELSE IF contains(m, "CANCEL_PREVIEW") THEN "CANCEL_PREVIEW"
    ELSE "keystroke"

(***************************************************************************)
(* Responses: kind is "none" when nothing is written to stdout.            *)
(***************************************************************************)
NoResponse == [kind |-> "none", text |-> "", nums |-> <<>>, output |-> <<>>]
ErrorResponse(text) == [NoResponse EXCEPT !.kind = "error", !.text = text]
StatusResponse(text, nums) ==
    [NoResponse EXCEPT !.kind = "status", !.text = text, !.nums = nums]
\* {"counter":n} or {"counter":null}
CounterResponse(opt) == [NoResponse EXCEPT !.kind = "counter", !.nums = opt]
OutputResponse(codes) == [NoResponse EXCEPT !.kind = "output", !.output = codes]

\* the codes of ghost navigation: 8 fingerprint bytes, then counter,
\* counter * 7 and counter + 13
ghost_codes(domain_hash, counter) ==
    SubSeq(domain_hash, 1, GhostBytes)
    \o <<counter, counter * 7, counter + 13>>

\* the engine right after full_reset in the protocol loop
GhostStart == [pos |-> Origin, mem |-> 0, seed |-> ProfileSeed]
GhostCounters == (0..8) \cup ((U16Max - 5)..U16Max)

\* value table of navigate(GhostStart, ghost_codes(fingerprint of d, c)),
\* computed once
GhostTable ==
    [d \in Domains |-> [c \in GhostCounters |->
        navigate(GhostStart, ghost_codes(HashWalkTable[d].hash_bytes, c))]]

\* the domains of the value table whose fingerprint is domain_hash
known_domains(domain_hash) ==
    {d \in Domains : HashWalkTable[d].hash_bytes = domain_hash}

\* ghost navigation: each code through transform_char(.., 0), output
\* discarded; read from the value table where it has the arguments
ghost_navigation(st, domain_hash, counter) ==
    IF st = GhostStart /\ known_domains(domain_hash) # {}
       /\ counter \in GhostCounters
    THEN GhostTable[CHOOSE d \in known_domains(domain_hash) : TRUE][counter]
    ELSE navigate(st, ghost_codes(domain_hash, counter))

(***************************************************************************)
(* State                                                                   *)
(***************************************************************************)
VARIABLES
    SESSION,          \* static mut SESSION: SessionState
    DOMAIN_TABLE,     \* static mut DOMAIN_TABLE: DomainTable
    structure,        \* the active profile's structure_system
    feedbacks,        \* feedbacks: Vec<u8> of run_json_io_mode
    files,            \* the executable path, its .bak and its .new
    message,          \* the message the loop read last
    response,         \* what the loop wrote to stdout for it
    running,          \* the loop has not ended
    nmsgs,            \* reads of the loop so far
    rw,               \* the rewrite in progress, step by step
    in_memory_cache,  \* BinaryStorageManager::in_memory_cache
    metadata_cache,   \* BinaryStorageManager::metadata_cache
    saved_passwords,  \* PasswordManager::saved_passwords
    result,           \* what the last direct call of a function returned
    sys,              \* a StructureSystem, its encoding, what it decodes to
    procs,            \* the parent process, the child process, their channels
    activated         \* the engine as the last activation of a session left it

vars == <<SESSION, DOMAIN_TABLE, structure, feedbacks, files, message,
          response, running, nmsgs, rw, in_memory_cache, metadata_cache,
          saved_passwords, result, sys, procs, activated>>
engine_vars == <<SESSION, DOMAIN_TABLE, structure, feedbacks>>
storage_vars == <<rw, in_memory_cache, metadata_cache, saved_passwords>>
\* what only the specifications of direct calls, of the processes and of
\* whole sessions change
side_vars == <<result, sys, procs, activated>>

\* the structure a profile decodes to: cursor at the origin
DecodedStructure == [pos |-> Origin, mem |-> 0, seed |-> ProfileSeed]

RECURSIVE table_with(_, _)
\* the table after set_counter for each <<domain, counter>> of a sequence
table_with(table, sets) ==
    IF sets = <<>> THEN table
    ELSE table_with(set_counter(table, DecodedStructure, Head(sets)[1],
                                Head(sets)[2]).table, Tail(sets))

\* tables an earlier run can have saved to the executable, from the
\* zeroed one of the bootstrap on
StoredTables ==
    {empty_table,
     table_with(empty_table, <<<<(<<97>>), 65534>>>>),
     table_with(empty_table,
                [i \in 1..NumSlots |-> <<(<<96 + i>>), 65536 - i>>])}

\* run_simple_setup: the profile "main", "Primary configuration"
MainProfile ==
    [name |-> <<109>>, description |-> <<80, 32, 99>>, created_date |-> 1,
     extra_chars_count |-> ExtraCharsCount, structure_system |-> <<7>>]

\* the executable of a set-up vault: one profile stored after bootstrap
stored_executable(table) ==
    [data |-> <<IMAGE, SECTION_MARKER, DOMAIN_TABLE_START_MARKER,
                table_bytes(table)>>
              \o profile_entry(MainProfile.name, to_bytes(MainProfile),
                               MainProfile.description)
              \o <<SECTION_MARKER>>,
     mode |-> "rwx"]

\* no rewrite under way; ret is what the last operation returned and at the
\* step whose error it returned; arg is the profile a store is storing,
\* stored the profiles of the stores that returned Ok, by name, failed
\* whether an operation has returned an error, entries what the appended
\* region of a file met by a load was made of; parent_mode and message_tx
\* (whether it is Some) are the manager's, sent the messages sent on
\* message_tx; before the two caches as the store under way found them
RwIdle == [op |-> "idle", pc |-> "idle", old |-> <<>>, content |-> <<>>,
           count |-> 0, crashed |-> FALSE, ret |-> "none", at |-> "none",
           arg |-> None, stored |-> NoCaches, failed |-> FALSE,
           entries |-> <<>>, parent_mode |-> FALSE, message_tx |-> FALSE,
           sent |-> <<>>, before |-> None]

\* no table function called directly yet: the function, its domain, its
\* other arguments, what it returned (the Result, and the value of an Ok or
\* of an Option), the number of calls so far and the function called before
NoCall == [fn |-> "none", domain |-> <<>>, arg |-> <<>>, ret |-> "none",
           val |-> None, n |-> 0, prev |-> "none"]
\* no StructureSystem built
NoSys ==
    [op |-> "none", ne |-> "little", values |-> <<>>, original |-> None,
     bytes |-> <<>>, tail |-> 0, decoded |-> None, inputs |-> <<>>,
     out_original |-> <<>>, out_decoded |-> <<>>]
\* no process started: where the parent and the child are, the messages
\* waiting in the receiver of each of the two channels each process made,
\* what the parent's recv calls returned, the stores of the child in
\* interactive mode, whether the executable is still without its end
\* marker, whether it holds a profile, and --auto-exit
NoProcs ==
    [parent |-> "none", child |-> "none", parent_rx_from_child |-> <<>>,
     parent_rx_from_parent |-> <<>>, child_rx_from_child |-> <<>>,
     child_rx_from_parent |-> <<>>, received |-> <<>>, stores |-> 0,
     fresh |-> FALSE, profiles |-> FALSE, auto_exit |-> FALSE]

\* the session of --use-domain-counter: fingerprint and looked-up counter
session_of(counter, h) ==
    [active_domain_hash |-> Some(h.hash), saved_counter |-> counter,
     active_counter |-> counter, is_preview_mode |-> FALSE,
     initialized |-> TRUE]

session_from(domain, g) ==
    session_of(unwrap_or_0(g.val), hash_domain(g.st, domain))

\* main, --use-domain-counter: the session set before the mode is entered
use_domain_counter(table, domain) ==
    session_from(domain, get_counter(table, DecodedStructure, domain))

\* main and run_json_io_mode up to the loop: the table loaded, the session
\* empty or set by --use-domain-counter, the profile decoded, reset_position
Init ==
    /\ \E t \in StoredTables :
         /\ files = [exe |-> stored_executable(t), bak |-> NoFile,
                     new |-> NoFile]
         /\ DOMAIN_TABLE = load_from_binary(files, DomainTable_new)
    /\ SESSION \in {SessionState_empty,
                    use_domain_counter(DOMAIN_TABLE, <<97>>)}
    /\ structure = reset_position(DecodedStructure)
    /\ feedbacks = <<>>
    /\ message = NoMessage
    /\ response = NoResponse
    /\ running = TRUE
    /\ nmsgs = 0
    /\ rw = RwIdle
    /\ in_memory_cache = load_all_passwords(files).in_memory_cache
    /\ metadata_cache = load_all_passwords(files).metadata_cache
    /\ \E order \in Orders(DOMAIN in_memory_cache) :
         saved_passwords = load_passwords(in_memory_cache, metadata_cache,
                                          order, Ok(<<>>))
    /\ result = NoCall
    /\ activated = None
    /\ sys = NoSys
    /\ procs = NoProcs

\* the state a handler of the loop works on
Current ==
    [SESSION |-> SESSION, DOMAIN_TABLE |-> DOMAIN_TABLE,
     structure |-> structure, feedbacks |-> feedbacks, files |-> files]

\* the state a handler leaves and what it wrote to stdout
Reply(ls, resp) ==
    [SESSION |-> ls.SESSION, DOMAIN_TABLE |-> ls.DOMAIN_TABLE,
     structure |-> ls.structure, feedbacks |-> ls.feedbacks,
     files |-> ls.files, response |-> resp]

TableFull == "Domain table full (512 slots)"
MissingDomain == "Missing domain"
NotInPreview == "Not in preview mode"

\* get_rules(domain).unwrap_or((0, CHAR_TYPE_ALL))
rules_or_default(opt) == IF opt = None THEN <<0, AllCharTypes>> ELSE opt[1]

\* "INIT"
handle_init(ls) ==
    Reply([ls EXCEPT !.structure = full_reset(ls.structure),
                     !.feedbacks = <<>>],
          StatusResponse("ready", <<>>))

\* RESET without the ghost navigation
handle_reset_unnavigated(ls) ==
    Reply([ls EXCEPT !.structure = full_reset(ls.structure),
                     !.feedbacks = <<>>],
          StatusResponse("reset", <<>>))

\* "RESET"
handle_reset(ls) ==
    Reply([ls EXCEPT
             !.structure =
                IF ls.SESSION.initialized
                   /\ ls.SESSION.active_domain_hash # None
                THEN ghost_navigation(full_reset(ls.structure),
                                      ls.SESSION.active_domain_hash[1],
                                      ls.SESSION.active_counter)
                ELSE full_reset(ls.structure),
             !.feedbacks = <<>>],
          StatusResponse("reset", <<>>))

\* "FINALIZE"
handle_finalize(ls) ==
    Reply([ls EXCEPT !.feedbacks = <<>>,
                     !.SESSION = [ls.SESSION EXCEPT
                                    !.initialized = FALSE,
                                    !.active_domain_hash = None]],
          NoResponse)

get_counter_reply(ls, g) ==
    Reply([ls EXCEPT !.structure = g.st], CounterResponse(g.val))

\* "GET_COUNTER"
handle_get_counter(ls, m) ==
    IF extract_json_string(m, "domain") = <<>>
    THEN Reply(ls, ErrorResponse(MissingDomain))
    ELSE get_counter_reply(ls,
             get_counter(ls.DOMAIN_TABLE, ls.structure,
                         extract_json_string(m, "domain")))

\* ACTIVATE navigating from the cursor it finds, without the full_reset
activate_session_unreset(ls, counter, rules, h) ==
    Reply([ls EXCEPT
             !.SESSION = [active_domain_hash |-> Some(h.hash),
                          saved_counter |-> counter,
                          active_counter |-> counter,
                          is_preview_mode |-> FALSE,
                          initialized |-> TRUE],
             !.structure = ghost_navigation(h.st, h.hash, counter),
             !.feedbacks = <<>>],
          StatusResponse("ready", <<counter, counter, rules[1], rules[2]>>))

\* ACTIVATE: session set, full_reset, ghost navigation, feedbacks cleared
activate_session(ls, counter, rules, h) ==
    Reply([ls EXCEPT
             !.SESSION = [active_domain_hash |-> Some(h.hash),
                          saved_counter |-> counter,
                          active_counter |-> counter,
                          is_preview_mode |-> FALSE,
                          initialized |-> TRUE],
             !.structure = ghost_navigation(full_reset(h.st), h.hash, counter),
             !.feedbacks = <<>>],
          StatusResponse("ready", <<counter, counter, rules[1], rules[2]>>))

activate_hash(ls, domain, counter, r) ==
    activate_session(ls, counter, rules_or_default(r.val),
                     hash_domain(r.st, domain))

\* ACTIVATE: get_rules, then hash_domain
activate_rules(ls, domain, counter) ==
    activate_hash(ls, domain, counter,
                  get_rules(ls.DOMAIN_TABLE, ls.structure, domain))

\* ACTIVATE, None arm: set_counter(domain, 0), then save_to_binary with its
\* error only printed
activate_create(ls, fault, sc) ==
    [ok |-> sc.ok, counter |-> 0,
     ls |-> IF sc.ok
            THEN [ls EXCEPT !.structure = sc.st, !.DOMAIN_TABLE = sc.table,
                            !.files = save_to_binary(ls.files, sc.table,
                                                     fault).fs]
            ELSE [ls EXCEPT !.structure = sc.st]]

\* ACTIVATE: match get_counter(domain)
activate_resolve(ls, domain, fault, g) ==
    IF g.val # None
    THEN [ok |-> TRUE, counter |-> g.val[1],
          ls |-> [ls EXCEPT !.structure = g.st]]
    ELSE activate_create(ls, fault,
                         set_counter(ls.DOMAIN_TABLE, g.st, domain, 0))

activate_finish(res, domain) ==
    IF res.ok THEN activate_rules(res.ls, domain, res.counter)
    ELSE Reply(res.ls, ErrorResponse(TableFull))

\* ACTIVATE without the test for an empty domain
handle_activate_unchecked(ls, m, fault) ==
    activate_finish(
        activate_resolve(ls, extract_json_string(m, "domain"), fault,
            get_counter(ls.DOMAIN_TABLE, ls.structure,
                        extract_json_string(m, "domain"))),
        extract_json_string(m, "domain"))

\* "ACTIVATE" (and not "ACTIVATE_PREVIEW")
handle_activate(ls, m, fault) ==
    IF extract_json_string(m, "domain") = <<>>
    THEN Reply(ls, ErrorResponse(MissingDomain))
    ELSE activate_finish(
             activate_resolve(ls, extract_json_string(m, "domain"), fault,
                 get_counter(ls.DOMAIN_TABLE, ls.structure,
                             extract_json_string(m, "domain"))),
             extract_json_string(m, "domain"))

\* ACTIVATE_PREVIEW navigating at the saved counter
preview_session_at_saved(ls, saved_counter, preview_counter, rules, h) ==
    Reply([ls EXCEPT
             !.SESSION = [active_domain_hash |-> Some(h.hash),
                          saved_counter |-> saved_counter,
                          active_counter |-> preview_counter,
                          is_preview_mode |-> TRUE,
                          initialized |-> TRUE],
             !.structure = ghost_navigation(full_reset(h.st), h.hash,
                                            saved_counter),
             !.feedbacks = <<>>],
          StatusResponse("preview", <<saved_counter, preview_counter,
                                      rules[1], rules[2]>>))

\* ACTIVATE_PREVIEW: session set, full_reset, ghost navigation at the
\* preview counter, feedbacks cleared
preview_session(ls, saved_counter, preview_counter, rules, h) ==
    Reply([ls EXCEPT
             !.SESSION = [active_domain_hash |-> Some(h.hash),
                          saved_counter |-> saved_counter,
                          active_counter |-> preview_counter,
                          is_preview_mode |-> TRUE,
                          initialized |-> TRUE],
             !.structure = ghost_navigation(full_reset(h.st), h.hash,
                                            preview_counter),
             !.feedbacks = <<>>],
          StatusResponse("preview", <<saved_counter, preview_counter,
                                      rules[1], rules[2]>>))

preview_hash(ls, domain, saved_counter, r) ==
    preview_session(ls, saved_counter, saturating_add1(saved_counter),
                    rules_or_default(r.val), hash_domain(r.st, domain))

\* ACTIVATE_PREVIEW claiming a slot for an unknown domain, as ACTIVATE does
preview_rules_alloc(ls, domain, g) ==
    preview_hash([ls EXCEPT !.DOMAIN_TABLE =
                     set_counter(ls.DOMAIN_TABLE, g.st, domain,
                                 unwrap_or_0(g.val)).table],
                 domain, unwrap_or_0(g.val),
                 get_rules(ls.DOMAIN_TABLE, g.st, domain))

\* ACTIVATE_PREVIEW: get_counter(domain).unwrap_or(0), then get_rules
preview_rules(ls, domain, g) ==
    preview_hash(ls, domain, unwrap_or_0(g.val),
                 get_rules(ls.DOMAIN_TABLE, g.st, domain))

\* "ACTIVATE_PREVIEW"
handle_activate_preview(ls, m) ==
    IF extract_json_string(m, "domain") = <<>>
    THEN Reply(ls, ErrorResponse(MissingDomain))
    ELSE preview_rules(ls, extract_json_string(m, "domain"),
             get_counter(ls.DOMAIN_TABLE, ls.structure,
                         extract_json_string(m, "domain")))

\* SET_COUNTER setting the saved counter of the session only
set_counter_session_saved(ls, counter, h) ==
    Reply(IF ls.SESSION.active_domain_hash = Some(h.hash)
          THEN [ls EXCEPT
                  !.SESSION = [ls.SESSION EXCEPT !.saved_counter = counter],
                  !.structure = full_reset(h.st),
                  !.feedbacks = <<>>]
          ELSE [ls EXCEPT !.structure = h.st],
          StatusResponse("success", <<>>))

\* SET_COUNTER: the session follows when the domain is the active one
set_counter_session(ls, counter, h) ==
    Reply(IF ls.SESSION.active_domain_hash = Some(h.hash)
          THEN [ls EXCEPT
                  !.SESSION = [ls.SESSION EXCEPT
                                 !.saved_counter = counter,
                                 !.active_counter = counter,
                                 !.is_preview_mode = FALSE],
                  !.structure = full_reset(h.st),
                  !.feedbacks = <<>>]
          ELSE [ls EXCEPT !.structure = h.st],
          StatusResponse("success", <<>>))

\* SET_COUNTER after set_counter: save_to_binary with its error only
\* printed, then hash_domain
set_counter_result(ls, domain, counter, fault, sc) ==
    IF sc.ok
    THEN set_counter_session(
             [ls EXCEPT !.DOMAIN_TABLE = sc.table,
                        !.files = save_to_binary(ls.files, sc.table,
                                                 fault).fs],
             counter, hash_domain(sc.st, domain))
    ELSE Reply([ls EXCEPT !.structure = sc.st], ErrorResponse(TableFull))

\* "SET_COUNTER"
handle_set_counter(ls, m, fault) ==
    IF extract_json_string(m, "domain") = <<>>
    THEN Reply(ls, ErrorResponse(MissingDomain))
    ELSE set_counter_result(ls, extract_json_string(m, "domain"),
             as_u16(extract_json_number(m, "counter")), fault,
             set_counter(ls.DOMAIN_TABLE, ls.structure,
                         extract_json_string(m, "domain"),
                         as_u16(extract_json_number(m, "counter"))))

\* SET_RULES after set_rules
set_rules_result(ls, fault, sr) ==
    IF sr.ok
    THEN Reply([ls EXCEPT !.DOMAIN_TABLE = sr.table, !.structure = sr.st,
                          !.files = save_to_binary(ls.files, sr.table,
                                                   fault).fs],
               StatusResponse("success", <<>>))
    ELSE Reply([ls EXCEPT !.structure = sr.st], ErrorResponse(TableFull))

\* "SET_RULES"
handle_set_rules(ls, m, fault) ==
    IF extract_json_string(m, "domain") = <<>>
    THEN Reply(ls, ErrorResponse(MissingDomain))
    ELSE set_rules_result(ls, fault,
             set_rules(ls.DOMAIN_TABLE, ls.structure,
                       extract_json_string(m, "domain"),
                       as_u16(extract_json_number(m, "max_length")),
                       as_u8(extract_json_number(m, "char_types"))))

\* COMMIT_INCREMENT after set_counter(domain, SESSION.active_counter)
commit_result(ls, fault, sc) ==
    IF sc.ok
    THEN Reply([ls EXCEPT
                  !.DOMAIN_TABLE = sc.table,
                  !.files = save_to_binary(ls.files, sc.table, fault).fs,
                  !.structure = sc.st,
                  !.SESSION = [ls.SESSION EXCEPT
                                 !.saved_counter = ls.SESSION.active_counter,
                                 !.is_preview_mode = FALSE]],
               StatusResponse("committed", <<ls.SESSION.active_counter>>))
    ELSE Reply([ls EXCEPT !.structure = sc.st], ErrorResponse(TableFull))

\* COMMIT_INCREMENT persisting the saved counter instead of the active one
handle_commit_increment_saved(ls, m, fault) ==
    IF extract_json_string(m, "domain") = <<>>
    THEN Reply(ls, ErrorResponse(MissingDomain))
    ELSE IF ~ls.SESSION.is_preview_mode
    THEN Reply(ls, ErrorResponse(NotInPreview))
    ELSE commit_result(ls, fault,
             set_counter(ls.DOMAIN_TABLE, ls.structure,
                         extract_json_string(m, "domain"),
                         ls.SESSION.saved_counter))

\* "COMMIT_INCREMENT"
handle_commit_increment(ls, m, fault) ==
    IF extract_json_string(m, "domain") = <<>>
    THEN Reply(ls, ErrorResponse(MissingDomain))
    ELSE IF ~ls.SESSION.is_preview_mode
    THEN Reply(ls, ErrorResponse(NotInPreview))
    ELSE commit_result(ls, fault,
             set_counter(ls.DOMAIN_TABLE, ls.structure,
                         extract_json_string(m, "domain"),
                         ls.SESSION.active_counter))

\* CANCEL_PREVIEW navigating at the counter that was active, not the saved
handle_cancel_preview_active(ls) ==
    IF ls.SESSION.is_preview_mode
    THEN Reply([ls EXCEPT
                  !.SESSION = [ls.SESSION EXCEPT
                                 !.active_counter = ls.SESSION.saved_counter,
                                 !.is_preview_mode = FALSE],
                  !.structure =
                     IF ls.SESSION.active_domain_hash # None
                     THEN ghost_navigation(full_reset(ls.structure),
                                           ls.SESSION.active_domain_hash[1],
                                           ls.SESSION.active_counter)
                     ELSE full_reset(ls.structure),
                  !.feedbacks = <<>>],
               StatusResponse("cancelled", <<ls.SESSION.saved_counter>>))
    ELSE Reply(ls, ErrorResponse(NotInPreview))

\* "CANCEL_PREVIEW"
handle_cancel_preview(ls) ==
    IF ls.SESSION.is_preview_mode
    THEN Reply([ls EXCEPT
                  !.SESSION = [ls.SESSION EXCEPT
                                 !.active_counter = ls.SESSION.saved_counter,
                                 !.is_preview_mode = FALSE],
                  !.structure =
                     IF ls.SESSION.active_domain_hash # None
                     THEN ghost_navigation(full_reset(ls.structure),
                                           ls.SESSION.active_domain_hash[1],
                                           ls.SESSION.saved_counter)
                     ELSE full_reset(ls.structure),
                  !.feedbacks = <<>>],
               StatusResponse("cancelled", <<ls.SESSION.saved_counter>>))
    ELSE Reply(ls, ErrorResponse(NotInPreview))

RECURSIVE keystroke_walk(_, _, _)
keystroke_walk_next(t, rest, out) == keystroke_walk(t.st, rest, out \o t.out)

\* the keystroke: transform_char over the navigation sequence, all output
\* codes collected; st is the engine after reset_position
keystroke_walk(st, codes, out) ==
    IF codes = <<>> THEN [st |-> st, out |-> out]
    ELSE keystroke_walk_next(transform_char(st, Head(codes), ExtraCharsCount),
                             Tail(codes), out)

\* feedbacks.iter().rev()
Reverse(s) == [i \in 1..Len(s) |-> s[Len(s) + 1 - i]]

\* the keystroke: feedback pushed, output written
keystroke_reply(ls, w) ==
    Reply([ls EXCEPT !.structure = w.st,
                     !.feedbacks = Append(ls.feedbacks, SumSeq(w.out) % 256)],
          OutputResponse(w.out))

\* the loop body after the command branches: a keystroke when charCode > 0,
\* nothing otherwise
handle_keystroke(ls, m) ==
    IF extract_json_number(m, "charCode") > 0
    THEN keystroke_reply(ls,
             keystroke_walk(reset_position(ls.structure),
                 <<extract_json_number(m, "charCode") + SumSeq(ls.feedbacks)>>
                 \o Reverse(ls.feedbacks), <<>>))
    ELSE Reply(ls, NoResponse)

\* the body of the loop for one message: the branch taken, its handler
loop_body(ls, m, fault) ==
    CASE branch(m) = "invalid_utf8" -> Reply(ls, NoResponse)
      [] branch(m) = "INIT" -> handle_init(ls)
      [] branch(m) = "RESET" -> handle_reset(ls)
      [] branch(m) = "FINALIZE" -> handle_finalize(ls)
      [] branch(m) = "GET_COUNTER" -> handle_get_counter(ls, m)
      [] branch(m) = "ACTIVATE" -> handle_activate(ls, m, fault)
      [] branch(m) = "ACTIVATE_PREVIEW" -> handle_activate_preview(ls, m)
      [] branch(m) = "SET_COUNTER" -> handle_set_counter(ls, m, fault)
      [] branch(m) = "SET_RULES" -> handle_set_rules(ls, m, fault)
      [] branch(m) = "COMMIT_INCREMENT" ->
           handle_commit_increment(ls, m, fault)
      [] branch(m) = "CANCEL_PREVIEW" -> handle_cancel_preview(ls)
      [] OTHER -> handle_keystroke(ls, m)

\* the loop reads message m of the given branch
Read(m, b) ==
    /\ running
    /\ nmsgs < MaxMsgs
    /\ branch(m) = b
    /\ message' = m
    /\ nmsgs' = nmsgs + 1

\* the handler's outcome becomes the state of the loop
Apply(o) ==
    /\ SESSION' = o.SESSION
    /\ DOMAIN_TABLE' = o.DOMAIN_TABLE
    /\ structure' = o.structure
    /\ feedbacks' = o.feedbacks
    /\ files' = o.files
    /\ response' = o.response

\* stdin.read_exact fails: break
EndOfInput ==
    /\ running
    /\ nmsgs < MaxMsgs
    /\ nmsgs' = nmsgs + 1
    /\ running' = FALSE
    /\ message' = NoMessage
    /\ response' = NoResponse
    /\ UNCHANGED <<engine_vars, files, storage_vars, side_vars>>

\* String::from_utf8 fails: continue
InvalidUtf8 ==
    \E m \in Messages :
      /\ Read(m, "invalid_utf8")
      /\ response' = NoResponse
      /\ UNCHANGED <<engine_vars, files, running, storage_vars, side_vars>>

HandleInit ==
    \E m \in Messages :
      /\ Read(m, "INIT")
      /\ Apply(handle_init(Current))
      /\ UNCHANGED <<running, storage_vars, side_vars>>

HandleReset ==
    \E m \in Messages :
      /\ Read(m, "RESET")
      /\ Apply(handle_reset(Current))
      /\ UNCHANGED <<running, storage_vars, side_vars>>

\* FINALIZE ends the loop
HandleFinalize ==
    \E m \in Messages :
      /\ Read(m, "FINALIZE")
      /\ Apply(handle_finalize(Current))
      /\ running' = FALSE
      /\ UNCHANGED <<storage_vars, side_vars>>

HandleGetCounter ==
    \E m \in Messages :
      /\ Read(m, "GET_COUNTER")
      /\ Apply(handle_get_counter(Current, m))
      /\ UNCHANGED <<running, storage_vars, side_vars>>

HandleActivate ==
    \E m \in Messages, fault \in LoopFaults :
      /\ Read(m, "ACTIVATE")
      /\ Apply(handle_activate(Current, m, fault))
      /\ UNCHANGED <<running, storage_vars, side_vars>>

HandleActivatePreview ==
    \E m \in Messages :
      /\ Read(m, "ACTIVATE_PREVIEW")
      /\ Apply(handle_activate_preview(Current, m))
      /\ UNCHANGED <<running, storage_vars, side_vars>>

HandleSetCounter ==
    \E m \in Messages, fault \in LoopFaults :
      /\ Read(m, "SET_COUNTER")
      /\ Apply(handle_set_counter(Current, m, fault))
      /\ UNCHANGED <<running, storage_vars, side_vars>>

HandleSetRules ==
    \E m \in Messages, fault \in LoopFaults :
      /\ Read(m, "SET_RULES")
      /\ Apply(handle_set_rules(Current, m, fault))
      /\ UNCHANGED <<running, storage_vars, side_vars>>

HandleCommitIncrement ==
    \E m \in Messages, fault \in LoopFaults :
      /\ Read(m, "COMMIT_INCREMENT")
      /\ Apply(handle_commit_increment(Current, m, fault))
      /\ UNCHANGED <<running, storage_vars, side_vars>>

HandleCancelPreview ==
    \E m \in Messages :
      /\ Read(m, "CANCEL_PREVIEW")
      /\ Apply(handle_cancel_preview(Current))
      /\ UNCHANGED <<running, storage_vars, side_vars>>

HandleKeystroke ==
    \E m \in Messages :
      /\ Read(m, "keystroke")
      /\ Apply(handle_keystroke(Current, m))
      /\ UNCHANGED <<running, storage_vars, side_vars>>

Next ==
    \/ EndOfInput
    \/ InvalidUtf8
    \/ HandleInit
    \/ HandleReset
    \/ HandleFinalize
    \/ HandleGetCounter
    \/ HandleActivate
    \/ HandleActivatePreview
    \/ HandleSetCounter
    \/ HandleSetRules
    \/ HandleCommitIncrement
    \/ HandleCancelPreview
    \/ HandleKeystroke

\* the protocol loop of run_json_io_mode
Spec == Init /\ [][Next]_vars

(***************************************************************************)
(* Properties of the protocol loop.  A step of the loop that received a    *)
(* request is one that read a framed UTF-8 message with that type field.   *)
(***************************************************************************)
Request(type, d) == [BlankMessage EXCEPT !.type = <<type>>, !.domain = <<d>>]

\* this step read a well-framed message with the given type field
Received(type) ==
    /\ nmsgs' = nmsgs + 1
    /\ message'.framed
    /\ message'.utf8
    /\ message'.type = <<type>>

\* the 64-byte fingerprint of a domain
fingerprint(d) == hash_domain(DecodedStructure, d).hash

\* the counter stored for d in a table, 0 when d has no slot
stored_counter(table, d) ==
    unwrap_or_0(counter_of(table, find_slot_by_hash(table, fingerprint(d))))

\* what the loop answers to GET_COUNTER(d) in a given state
get_counter_answer(ls, d) ==
    loop_body(ls, Request("GET_COUNTER", d), "none").response

\* C1: a COMMIT_INCREMENT(d) that is answered "committed" while the session
\* previews d (the state ACTIVATE_PREVIEW(d) leaves) makes GET_COUNTER(d)
\* return the previewed active counter, sets the saved counter to that value
\* and clears the preview flag.
C1_CommitStep ==
    \A d \in Domains :
      (/\ Received("COMMIT_INCREMENT")
       /\ message'.domain = <<d>>
       /\ SESSION.is_preview_mode
       /\ SESSION.active_domain_hash = Some(fingerprint(d))
       /\ response'.text = "committed")
      => /\ get_counter_answer(Current', d)
              = CounterResponse(Some(SESSION.active_counter))
         /\ response'.nums = <<SESSION.active_counter>>
         /\ SESSION'.saved_counter = SESSION.active_counter
         /\ SESSION'.active_counter = SESSION.active_counter
         /\ ~SESSION'.is_preview_mode

C1_CommitPersistsPreview == [][C1_CommitStep]_vars

\* ACTIVATE_PREVIEW(d) of a domain without a slot, then COMMIT_INCREMENT(d):
\* the slot of d now holds the previewed counter 1
C1_Witness ==
    /\ nmsgs = 2
    /\ message.type = <<"COMMIT_INCREMENT">>
    /\ message.domain = <<(<<97>>)>>
    /\ response.text = "committed"
    /\ SESSION.saved_counter = 1
    /\ stored_counter(DOMAIN_TABLE, <<97>>) = 1
    /\ ~SESSION.is_preview_mode

\* C2 as stated: ACTIVATE_PREVIEW(d) sets the active counter to c + 1, the
\* saved counter to c and preview = true, c being the stored counter of d
\* (0 without a slot), for every domain d and every c in 0..65535.
C2_PreviewStep ==
    \A d \in Domains :
      (Received("ACTIVATE_PREVIEW") /\ message'.domain = <<d>>)
      => /\ SESSION'.active_counter = stored_counter(DOMAIN_TABLE, d) + 1
         /\ SESSION'.saved_counter = stored_counter(DOMAIN_TABLE, d)
         /\ SESSION'.is_preview_mode

C2_PreviewIsStoredPlusOne == [][C2_PreviewStep]_vars

\* C3: an ACTIVATE_PREVIEW request leaves the domain table as it was, and
\* GET_COUNTER(d) is answered the same right after it as right before it.
C3_PreviewStep ==
    \A d \in Domains :
      (Received("ACTIVATE_PREVIEW") /\ message'.domain = <<d>>)
      => /\ DOMAIN_TABLE' = DOMAIN_TABLE
         /\ get_counter_answer(Current', d) = get_counter_answer(Current, d)

C3_PreviewLeavesTable == [][C3_PreviewStep]_vars

\* a preview of a domain that has no slot: the session previews counter 1
\* and the table still has no slot for it
C3_Witness ==
    /\ message.type = <<"ACTIVATE_PREVIEW">>
    /\ message.domain = <<(<<97>>)>>
    /\ response.text = "preview"
    /\ SESSION.active_counter = 1
    /\ find_slot_by_hash(DOMAIN_TABLE, fingerprint(<<97>>)) = None

\* C4: CANCEL_PREVIEW while the session is in preview sets the active
\* counter to the saved counter, clears the preview flag, leaves the domain
\* table unchanged and leaves the engine where a full reset followed by
\* ghost navigation at the saved counter puts it.
C4_CancelStep ==
    (Received("CANCEL_PREVIEW") /\ SESSION.is_preview_mode)
    => /\ SESSION'.active_counter = SESSION.saved_counter
       /\ SESSION'.saved_counter = SESSION.saved_counter
       /\ ~SESSION'.is_preview_mode
       /\ DOMAIN_TABLE' = DOMAIN_TABLE
       /\ SESSION.active_domain_hash # None
       /\ structure' =
            navigate([structure EXCEPT !.pos = Origin, !.mem = 0],
                     ghost_codes(SESSION.active_domain_hash[1],
                                 SESSION.saved_counter))
       /\ feedbacks' = <<>>

C4_CancelRestores == [][C4_CancelStep]_vars

\* a cancelled preview of a stored counter below the maximum
C4_Witness ==
    /\ message.type = <<"CANCEL_PREVIEW">>
    /\ response.text = "cancelled"
    /\ SESSION.active_counter = SESSION.saved_counter
    /\ SESSION.saved_counter = 65534
    /\ ~SESSION.is_preview_mode

\* C5 as stated: COMMIT_INCREMENT or CANCEL_PREVIEW received while the
\* session is not in preview is answered with an error, and session, domain
\* table, engine and feedback list are unchanged.
C5_NotPreviewStep ==
    ((Received("COMMIT_INCREMENT") \/ Received("CANCEL_PREVIEW"))
     /\ ~SESSION.is_preview_mode)
    => /\ response'.kind = "error"
       /\ UNCHANGED <<SESSION, DOMAIN_TABLE, structure, feedbacks>>

C5_NotInPreviewRejected == [][C5_NotPreviewStep]_vars

\* the request types the loop lists
CommandTypes ==
    {"INIT", "RESET", "FINALIZE", "GET_COUNTER", "ACTIVATE",
     "ACTIVATE_PREVIEW", "SET_COUNTER", "SET_RULES", "COMMIT_INCREMENT",
     "CANCEL_PREVIEW"}

\* this step read a well-framed message that is none of the listed requests
ReceivedOther ==
    /\ nmsgs' = nmsgs + 1
    /\ message'.framed
    /\ message'.utf8
    /\ \A t \in CommandTypes : message'.type # <<t>>

\* C6 as stated: a well-framed message that is none of the listed requests
\* (a keystroke, an unrecognized type, charCode 0 or absent) and arrives
\* while the session is uninitialized is answered with an error, and is
\* neither processed nor left without a response.
C6_OtherStep ==
    (ReceivedOther /\ ~SESSION.initialized)
    => /\ response'.kind = "error"
       /\ UNCHANGED <<structure, feedbacks>>

C6_UninitializedRejected == [][C6_OtherStep]_vars

\* C7 as stated: once FINALIZE has been handled the session is the empty
\* session.
C7_FinalizeEmptiesSession ==
    (message.framed /\ message.utf8 /\ message.type = <<"FINALIZE">>)
    => SESSION = SessionState_empty

\* C8 as stated: a GET_COUNTER request leaves the session, every slot of
\* the domain table, the feedback list and the engine's cursor, seed and
\* path memory unchanged.
C8_GetCounterStep ==
    Received("GET_COUNTER")
    => UNCHANGED <<SESSION, DOMAIN_TABLE, feedbacks, structure>>

C8_GetCounterPureRead == [][C8_GetCounterStep]_vars

\* the requests that carry a domain
DomainCommands ==
    {"GET_COUNTER", "ACTIVATE", "ACTIVATE_PREVIEW", "SET_COUNTER",
     "SET_RULES", "COMMIT_INCREMENT"}

\* C9: a GET_COUNTER, ACTIVATE, ACTIVATE_PREVIEW, SET_COUNTER, SET_RULES or
\* COMMIT_INCREMENT request with no domain field or an empty one is
\* answered with the error "Missing domain", leaves the session, the domain
\* table and the executable as they were, and the loop keeps running.
C9_MissingDomainStep ==
    \A t \in DomainCommands :
      (Received(t) /\ extract_json_string(message', "domain") = <<>>)
      => /\ response' = ErrorResponse(MissingDomain)
         /\ UNCHANGED <<SESSION, DOMAIN_TABLE, files>>
         /\ running'

C9_MissingDomainRejected == [][C9_MissingDomainStep]_vars

\* a SET_RULES request with "domain":"" received as the second message, in
\* preview: rejected, the loop still running
C9_Witness ==
    /\ nmsgs = 2
    /\ message.type = <<"SET_RULES">>
    /\ message.domain = << <<>> >>
    /\ response = ErrorResponse(MissingDomain)
    /\ SESSION.is_preview_mode
    /\ running

(***************************************************************************)
(* The executable rewrite, step by step: ensure_end_marker /               *)
(* append_end_marker, store and save_to_binary, each step able to fail,    *)
(* and the process able to die before any step.                            *)
(***************************************************************************)
\* profile names, payloads and descriptions of the stores
\* names and descriptions as save_password is given them: no white space
\* at either end, no zero byte
ProfileNames == {MainProfile.name, <<110>>}
ProfileDescriptions == {MainProfile.description, <<100>>}
ProfileDates == 1..2
\* the SavedPassword that save_password stores
saved_password(name, description, created_date) ==
    [MainProfile EXCEPT !.name = name, !.description = description,
                        !.created_date = created_date]

\* the executable as built: no appended region yet
FreshExecutable == [data |-> <<IMAGE>>, mode |-> "rwx"]

\* proper prefixes of the content a write_all sequence was writing
Prefixes(content) == {Take(content, k) : k \in 0..(Len(content) - 1)}

RwInit ==
    /\ files = [exe |-> FreshExecutable, bak |-> NoFile, new |-> NoFile]
    /\ DOMAIN_TABLE = DomainTable_new
    /\ SESSION = SessionState_empty
    /\ structure = DecodedStructure
    /\ feedbacks = <<>>
    /\ message = NoMessage
    /\ response = NoResponse
    /\ running = FALSE
    /\ nmsgs = 0
    /\ rw \in {[RwIdle EXCEPT !.message_tx = tx] : tx \in BOOLEAN}
    /\ in_memory_cache = <<>>
    /\ metadata_cache = <<>>
    /\ saved_passwords = Ok(<<>>)
    /\ result = NoCall
    /\ activated = None
    /\ sys = NoSys
    /\ procs = NoProcs

loop_vars == <<SESSION, structure, feedbacks, message, response, running,
               nmsgs>>

CanBegin == rw.pc = "idle" /\ ~rw.crashed /\ rw.count < MaxRewrites

\* the rewrite begins: buffer read, content to write decided
begin_rewrite(op, buffer, content) ==
    [rw EXCEPT !.op = op, !.pc = "create", !.old = buffer,
               !.content = content, !.count = rw.count + 1,
               !.ret = "none", !.at = "none", !.arg = None]

\* ensure_end_marker, and append_end_marker up to the temp file
BeginEnsureEndMarker ==
    /\ CanBegin
    /\ exists(files.exe)
    /\ LET buffer == files.exe.data
       IN /\ buffer[Len(buffer)].k # SECTION_MARKER.k
          /\ rw' = begin_rewrite("append_end_marker", buffer,
                                 append_content(buffer))
    /\ UNCHANGED <<files, DOMAIN_TABLE, in_memory_cache, metadata_cache,
                   loop_vars, saved_passwords, side_vars>>

\* ensure_end_marker on an initialized file: Ok(false)
EnsureEndMarkerFound ==
    /\ CanBegin
    /\ exists(files.exe)
    /\ files.exe.data[Len(files.exe.data)].k = SECTION_MARKER.k
    /\ rw' = [rw EXCEPT !.op = "ensure_end_marker", !.count = rw.count + 1,
                         !.ret = "Ok(false)", !.at = "none"]
    /\ UNCHANGED <<files, DOMAIN_TABLE, in_memory_cache, metadata_cache,
                   loop_vars, saved_passwords, side_vars>>

\* store up to the temp file: caches updated first, executable read
store_begin(name, description, data) ==
    /\ in_memory_cache' = insert(in_memory_cache, name, data)
    /\ metadata_cache' = insert(metadata_cache, name, description)
    /\ IF exists(files.exe)
       THEN \E order \in Orders((DOMAIN in_memory_cache) \ {name}) :
              rw' = [begin_rewrite("store", files.exe.data,
                       store_content(files.exe.data, order, in_memory_cache,
                                     metadata_cache, name, description, data))
                     EXCEPT !.arg = Some([name |-> name, data |-> data,
                                          description |-> description]),
                            !.before = Some([in_memory_cache |->
                                               in_memory_cache,
                                             metadata_cache |->
                                               metadata_cache])]
       ELSE rw' = [rw EXCEPT !.op = "store", !.count = rw.count + 1,
                                 !.ret = "Err", !.at = "open",
                                 !.failed = TRUE]

\* PasswordManager::save_password: store(name, description, to_bytes())
BeginStore ==
    \E name \in ProfileNames, description \in ProfileDescriptions,
       created_date \in ProfileDates :
      /\ CanBegin
      /\ store_begin(name, description,
                     to_bytes(saved_password(name, description,
                                             created_date)))
      /\ UNCHANGED <<files, DOMAIN_TABLE, loop_vars, saved_passwords,
                     side_vars>>

\* save_to_binary up to the temp file: the marker scan decides
begin_save(buffer, table, marker_pos) ==
    IF marker_pos # None
    THEN begin_rewrite("save_to_binary", buffer,
                       save_content(buffer, marker_pos[1], table))
    ELSE [rw EXCEPT !.op = "save_to_binary", !.count = rw.count + 1,
                    !.ret = "Err", !.at = "scan", !.failed = TRUE]

cli_set_counter(sc) ==
    /\ DOMAIN_TABLE' = sc.table
    /\ rw' = IF exists(files.exe)
             THEN begin_save(files.exe.data, sc.table,
                             table_marker_pos(files.exe.data))
             ELSE [rw EXCEPT !.op = "save_to_binary", !.count = rw.count + 1,
                             !.ret = "Err", !.at = "open"]

\* main, --set-counter: load_from_binary, set_counter, then save_to_binary
\* up to the temp file
BeginSaveToBinary ==
    \E counter \in 1..2 :
      /\ CanBegin
      /\ cli_set_counter(set_counter(load_from_binary(files, DOMAIN_TABLE),
                                     DecodedStructure, <<97>>, counter))
      /\ UNCHANGED <<files, in_memory_cache, metadata_cache, loop_vars,
                     saved_passwords, side_vars>>

Stepping(pc) == rw.pc = pc /\ ~rw.crashed

RwCreate ==
    /\ Stepping("create")
    /\ files' = create_temp(files)
    /\ rw' = [rw EXCEPT !.pc = "write"]
    /\ UNCHANGED <<DOMAIN_TABLE, in_memory_cache, metadata_cache, loop_vars,
                   saved_passwords, side_vars>>

RwWrite ==
    /\ Stepping("write")
    /\ files' = write_temp(files, rw.content)
    /\ rw' = [rw EXCEPT !.pc = "perms"]
    /\ UNCHANGED <<DOMAIN_TABLE, in_memory_cache, metadata_cache, loop_vars,
                   saved_passwords, side_vars>>

RwPerms ==
    /\ Stepping("perms")
    /\ files' = copy_permissions(files)
    /\ rw' = [rw EXCEPT !.pc = "backup"]
    /\ UNCHANGED <<DOMAIN_TABLE, in_memory_cache, metadata_cache, loop_vars,
                   saved_passwords, side_vars>>

RwBackup ==
    /\ Stepping("backup")
    /\ files' = rename_to_backup(files)
    /\ rw' = [rw EXCEPT !.pc = "replace"]
    /\ UNCHANGED <<DOMAIN_TABLE, in_memory_cache, metadata_cache, loop_vars,
                   saved_passwords, side_vars>>

\* signal_binary_update sending the message twice
signal_binary_update_twice(r) ==
    IF r.message_tx THEN r.sent \o <<"BinaryUpdated", "BinaryUpdated">>
    ELSE r.sent

\* BinaryStorageManager::signal_binary_update: the messages sent so far
\* after it; the receiver lives as long as the process, so send returns Ok
signal_binary_update(r) ==
    IF r.message_tx THEN Append(r.sent, "BinaryUpdated") ELSE r.sent

\* store after its final rename, and new after ensure_end_marker returned
\* Ok(true): if !self.parent_mode { self.signal_binary_update()?; }
signal_modified(r) ==
    IF r.op \in {"store", "append_end_marker"} /\ ~r.parent_mode
    THEN signal_binary_update(r)
    ELSE r.sent

\* the final rename, and what follows it in the operation
RwReplace ==
    /\ Stepping("replace")
    /\ files' = rename_to_original(files)
    /\ rw' = [rw EXCEPT !.pc = "idle",
                         !.ret = IF rw.op = "append_end_marker"
                                 THEN "Ok(true)" ELSE "Ok",
                         !.stored = insert_entry(rw.stored, rw.arg),
                         !.sent = signal_modified(rw),
                         !.before = None]
    /\ UNCHANGED <<DOMAIN_TABLE, in_memory_cache, metadata_cache, loop_vars,
                   saved_passwords, side_vars>>

\* the step at rw.pc returns an I/O error: the operation returns Err; a
\* failed write leaves what was written, store restores the backup when the
\* final rename fails
RwFail ==
    /\ rw.pc # "idle"
    /\ ~rw.crashed
    /\ \/ rw.pc # "write" /\ rw.pc # "replace" /\ files' = files
       \/ rw.pc = "write"
          /\ \E part \in Prefixes(rw.content) : files' = write_temp(files, part)
       \/ rw.pc = "replace"
          /\ files' = IF rw.op = "store" THEN restore_backup(files) ELSE files
    /\ rw' = [rw EXCEPT !.pc = "idle", !.ret = "Err", !.at = rw.pc,
                         !.failed = TRUE, !.before = None]
    /\ UNCHANGED <<DOMAIN_TABLE, in_memory_cache, metadata_cache, loop_vars,
                   saved_passwords, side_vars>>

\* BinaryStorageManager::new in a process started anew, after its
\* ensure_end_marker: load_all_passwords fills the caches from the file
LoadAllPasswords ==
    /\ rw.pc = "idle"
    /\ ~rw.crashed
    /\ rw.op # "load_all_passwords"
    /\ in_memory_cache' = load_all_passwords(files).in_memory_cache
    /\ metadata_cache' = load_all_passwords(files).metadata_cache
    /\ rw' = [rw EXCEPT !.op = "load_all_passwords", !.ret = "Ok",
                         !.at = "none"]
    /\ UNCHANGED <<files, DOMAIN_TABLE, loop_vars, saved_passwords, side_vars>>

\* the process dies before the step at rw.pc completes
Crash ==
    /\ rw.pc # "idle"
    /\ ~rw.crashed
    /\ \/ files' = files
       \/ rw.pc = "write"
          /\ \E part \in Prefixes(rw.content) : files' = write_temp(files, part)
    /\ rw' = [rw EXCEPT !.crashed = TRUE]
    /\ UNCHANGED <<DOMAIN_TABLE, in_memory_cache, metadata_cache, loop_vars,
                   saved_passwords, side_vars>>

RwNext ==
    \/ BeginEnsureEndMarker
    \/ EnsureEndMarkerFound
    \/ BeginStore
    \/ BeginSaveToBinary
    \/ RwCreate
    \/ RwWrite
    \/ RwPerms
    \/ RwBackup
    \/ RwReplace
    \/ RwFail
    \/ LoadAllPasswords
    \/ Crash

\* the rewrites of the executable, step by step
SpecRewrite == RwInit /\ [][RwNext]_vars

\* C10: while a rewrite of the executable is under way (bootstrap append,
\* profile store, domain-table save), and so wherever the process dies in
\* it, the executable path, the .bak path or the .new path holds a complete
\* copy of the old content or of the new content.
C10_CompleteCopyKept ==
    (rw.pc # "idle" \/ rw.crashed)
    => \E p \in {"exe", "bak", "new"} :
         /\ exists(files[p])
         /\ files[p].data \in {rw.old, rw.content}

\* the process died between the two renames of a store: nothing under the
\* executable path, the old content under .bak, the new under .new
C10_Witness ==
    /\ rw.crashed
    /\ rw.op = "store"
    /\ rw.pc = "replace"
    /\ ~exists(files.exe)
    /\ files.bak.data = rw.old
    /\ files.new.data = rw.content
    /\ rw.old # rw.content

\* C11: when the final rename of the temp file onto the executable path
\* fails, in any rewrite, the operation has put the .bak copy back before it
\* returns the error: the executable path holds the old content.
C11_FailedRenameRestores ==
    (rw.ret = "Err" /\ rw.at = "replace")
    => (exists(files.exe) /\ files.exe.data = rw.old)

\* the commands of the loop that write the domain table back
SavingCommands == {"ACTIVATE", "SET_COUNTER", "SET_RULES", "COMMIT_INCREMENT"}

\* C12: a step of the loop that handled ACTIVATE, SET_COUNTER, SET_RULES or
\* COMMIT_INCREMENT and in which the write of the domain table back to the
\* executable failed (the final rename failed: the executable path lost its
\* file) answers with an error payload.
C12_SaveFailureStep ==
    ((\E t \in SavingCommands : Received(t))
        /\ exists(files.exe) /\ ~exists(files'.exe))
    => response'.kind = "error"

C12_SaveFailurePropagated == [][C12_SaveFailureStep]_vars

\* this step is a call of ensure_end_marker: it found the storage
\* initialized or went on into append_end_marker
EnsureEndMarkerCalled ==
    /\ rw'.count = rw.count + 1
    /\ rw'.op \in {"ensure_end_marker", "append_end_marker"}

\* C13: once ensure_end_marker has appended the section marker, the table
\* marker and the empty table, an ensure_end_marker called next on the
\* resulting file (no store in between) returns Ok(false) and leaves the
\* file as it is.
C13_SecondBootstrapStep ==
    (/\ rw.op = "append_end_marker"
     /\ rw.ret = "Ok(true)"
     /\ files.exe.data = append_content(rw.old)
     /\ EnsureEndMarkerCalled)
    => (rw'.ret = "Ok(false)" /\ files' = files)

C13_BootstrapIdempotent == [][C13_SecondBootstrapStep]_vars

MaxEntries == 2

\* what an entry can lack: each is one warning of load_all_passwords
Damages ==
    {"no_name_marker", "no_name_nul", "bad_name_utf8", "no_end_marker",
     "empty_data", "no_desc_marker", "no_desc_nul", "bad_desc_utf8"}

\* the name marker and the name of an entry
name_runs(e) ==
    CASE e.damage = "no_name_marker" -> <<>>
      [] e.damage = "no_name_nul" -> <<Run("NM", e.name)>>
      [] e.damage = "bad_name_utf8" -> <<Run("NM", <<255>> \o e.name \o <<0>>)>>
      [] OTHER -> <<Run("NM", e.name \o <<0>>)>>

\* the payload and the end marker of an entry
data_runs(e) ==
    CASE e.damage = "empty_data" -> <<END_MARKER>>
      [] e.damage = "no_end_marker" -> <<Run("DATA", e.data)>>
      [] OTHER -> <<Run("DATA", e.data), END_MARKER>>

\* the description marker and the description of an entry
desc_runs(e) ==
    CASE e.damage = "no_desc_marker" -> <<>>
      [] e.damage = "no_desc_nul" -> <<Run("DS", e.description)>>
      [] e.damage = "bad_desc_utf8" ->
           <<Run("DS", <<255>> \o e.description \o <<0>>)>>
      [] OTHER -> <<Run("DS", e.description \o <<0>>)>>

\* the bytes of one entry as store writes them, less what the entry lacks
entry_runs(e) ==
    <<START_MARKER>> \o name_runs(e) \o data_runs(e) \o desc_runs(e)

RECURSIVE region_runs(_)
region_runs(entries) ==
    IF entries = <<>> THEN <<>>
    ELSE entry_runs(Head(entries)) \o region_runs(Tail(entries))

\* an entry of a file: the profile stored, its payload cut to a length, and
\* what its marker sequence lacks
file_entry(name, description, cut, damage) ==
    [name |-> name, description |-> description,
     data |-> Take(to_bytes(saved_password(name, description, 1)), cut),
     whole |-> cut >= Len(to_bytes(saved_password(name, description, 1))),
     damage |-> damage]

\* the entries of the files loaded: the profile "main" with its payload
\* whole or truncated to any length, a second profile whole or with a
\* damaged marker sequence
FileEntries ==
    {file_entry(MainProfile.name, MainProfile.description, cut, "none") :
        cut \in 1..Len(to_bytes(MainProfile))}
    \cup {file_entry(<<110>>, <<100>>, Len(to_bytes(MainProfile)), damage) :
             damage \in Damages \cup {"none"}}

\* an executable whose appended region holds the given entries
damaged_executable(entries) ==
    [data |-> <<IMAGE, SECTION_MARKER, DOMAIN_TABLE_START_MARKER,
                table_bytes(empty_table)>>
              \o region_runs(entries) \o <<SECTION_MARKER>>,
     mode |-> "rwx"]

LoadInit ==
    /\ \E n \in 1..MaxEntries : \E entries \in [1..n -> FileEntries] :
         /\ files = [exe |-> damaged_executable(entries), bak |-> NoFile,
                     new |-> NoFile]
         /\ rw = [RwIdle EXCEPT !.entries = entries]
    /\ DOMAIN_TABLE = DomainTable_new
    /\ SESSION = SessionState_empty
    /\ structure = DecodedStructure
    /\ feedbacks = <<>>
    /\ message = NoMessage
    /\ response = NoResponse
    /\ running = FALSE
    /\ nmsgs = 0
    /\ in_memory_cache = <<>>
    /\ metadata_cache = <<>>
    /\ saved_passwords = Ok(<<>>)
    /\ result = NoCall
    /\ activated = None
    /\ sys = NoSys
    /\ procs = NoProcs

\* PasswordManager::new after BinaryStorageManager::new: every payload of
\* the cache decoded; a panic ends the process
ManagerLoadAllPasswords ==
    /\ rw.op = "load_all_passwords"
    /\ ~rw.crashed
    /\ \E order \in Orders(DOMAIN in_memory_cache) :
         saved_passwords' = load_passwords(in_memory_cache, metadata_cache,
                                           order, Ok(<<>>))
    /\ rw' = [rw EXCEPT !.op = "manager_load_all_passwords",
                         !.crashed = saved_passwords'.kind = "panic"]
    /\ UNCHANGED <<files, DOMAIN_TABLE, in_memory_cache, metadata_cache,
                   loop_vars, side_vars>>

LoadNext ==
    \/ LoadAllPasswords
    \/ ManagerLoadAllPasswords

\* the load of a damaged executable
SpecLoad == LoadInit /\ [][LoadNext]_vars

RECURSIVE well_formed_caches(_, _)
\* the caches that hold the entries whose marker sequence lacks nothing, a
\* later entry of a name replacing an earlier one
well_formed_caches(entries, caches) ==
    IF entries = <<>> THEN caches
    ELSE well_formed_caches(Tail(entries),
             IF Head(entries).damage # "none" THEN caches
             ELSE insert_entry(caches, Some(Head(entries))))

\* the caches of the storage manager
Caches ==
    [in_memory_cache |-> in_memory_cache, metadata_cache |-> metadata_cache]

\* C15: load_all_passwords returns Ok with every entry whose marker sequence
\* is malformed skipped (no name marker, name without terminator, no end
\* marker, empty payload, no description marker, invalid UTF-8) and every
\* well-formed entry of the region in the cache.
C15_MalformedSkipped ==
    (rw.op = "load_all_passwords" /\ rw.entries # <<>>)
    => (/\ rw.ret = "Ok"
        /\ DOMAIN in_memory_cache
             = DOMAIN well_formed_caches(rw.entries, NoCaches).in_memory_cache
        /\ \A n \in DOMAIN in_memory_cache :
             /\ in_memory_cache[n]
                  = well_formed_caches(rw.entries,
                                       NoCaches).in_memory_cache[n]
             /\ metadata_cache[n]
                  = well_formed_caches(rw.entries,
                                       NoCaches).metadata_cache[n])

\* the profiles the password manager holds, as a set
loaded_passwords ==
    {saved_passwords.value[i] : i \in DOMAIN saved_passwords.value}

\* what the region holds is well-formed up to the payloads: every marker
\* sequence whole, some payloads truncated
OnlyTruncated ==
    /\ rw.entries # <<>>
    /\ \A i \in DOMAIN rw.entries : rw.entries[i].damage = "none"
    /\ \E i \in DOMAIN rw.entries : ~rw.entries[i].whole

\* the last entry of a name in the region
last_entry(entries, name) ==
    entries[CHOOSE i \in DOMAIN entries :
               /\ entries[i].name = name
               /\ \A j \in DOMAIN entries : entries[j].name = name => j <= i]

\* C16: a stored payload truncated to any length, fewer than 4 bytes
\* included, fails to decode with an error; only that profile is left out
\* and every other profile is loaded, the load not aborting.
C16_TruncatedSkipped ==
    (rw.op = "manager_load_all_passwords" /\ OnlyTruncated)
    => (/\ saved_passwords.kind = "Ok"
        /\ {p.name : p \in loaded_passwords}
             = {rw.entries[i].name : i \in
                  {j \in DOMAIN rw.entries :
                      last_entry(rw.entries, rw.entries[j].name).whole}}
        /\ \A p \in loaded_passwords :
             to_bytes(p) = last_entry(rw.entries, p.name).data)

(***************************************************************************)
(* The domain table on its own: set_counter, set_rules, get_counter and    *)
(* increment_counter called on the table of DomainTable::new, the result   *)
(* of each call kept in result.                                            *)
(***************************************************************************)
\* calls followed: enough to fill the table and to call twice more
TableCalls == NumSlots + 2
\* counter and (max_length, char_types) arguments of the calls
TableCounters == {7, U16Max}
TableRules == {<<12, 3>>}

\* the engines the calls are given: the decoded profile, or one that has
\* transformed a character
TableEngines ==
    {DecodedStructure, transform_char(DecodedStructure, 65, ExtraCharsCount).st}

TableInit ==
    /\ DOMAIN_TABLE = DomainTable_new
    /\ structure \in TableEngines
    /\ result = NoCall
    /\ activated = None
    /\ sys = NoSys
    /\ procs = NoProcs
    /\ files = [exe |-> NoFile, bak |-> NoFile, new |-> NoFile]
    /\ SESSION = SessionState_empty
    /\ feedbacks = <<>>
    /\ message = NoMessage
    /\ response = NoResponse
    /\ running = FALSE
    /\ nmsgs = 0
    /\ rw = RwIdle
    /\ in_memory_cache = <<>>
    /\ metadata_cache = <<>>
    /\ saved_passwords = Ok(<<>>)

\* Result<(), &'static str> of set_counter and set_rules
table_result(r) == IF r.ok THEN "Ok" ELSE TableFull

\* the table and the engine a call leaves, and what it returned
TableCall(fn, domain, arg, r, ret, val) ==
    /\ DOMAIN_TABLE' = r.table
    /\ structure' = r.st
    /\ result' = [fn |-> fn, domain |-> domain, arg |-> arg, ret |-> ret,
                  val |-> val, n |-> result.n + 1, prev |-> result.fn]
    /\ UNCHANGED <<SESSION, feedbacks, files, message, response, running,
                   nmsgs, storage_vars, sys, procs, activated>>

SetCounter ==
    \E domain \in PlainDomains, counter \in TableCounters :
      /\ result.n < TableCalls
      /\ TableCall("set_counter", domain, <<counter>>,
                   set_counter(DOMAIN_TABLE, structure, domain, counter),
                   table_result(set_counter(DOMAIN_TABLE, structure, domain,
                                            counter)),
                   None)

SetRules ==
    \E domain \in PlainDomains, rules \in TableRules :
      /\ result.n < TableCalls
      /\ TableCall("set_rules", domain, rules,
                   set_rules(DOMAIN_TABLE, structure, domain, rules[1],
                             rules[2]),
                   table_result(set_rules(DOMAIN_TABLE, structure, domain,
                                          rules[1], rules[2])),
                   None)

\* get_counter leaves the table; Option<u16> returned
got_counter(g) == [table |-> DOMAIN_TABLE, st |-> g.st, val |-> g.val]

GetCounter ==
    \E domain \in PlainDomains :
      /\ result.n < TableCalls
      /\ TableCall("get_counter", domain, <<>>,
                   got_counter(get_counter(DOMAIN_TABLE, structure, domain)),
                   "Option",
                   get_counter(DOMAIN_TABLE, structure, domain).val)

\* Result<u16, &'static str>: the value of an Ok
ok_value(r) == IF r.ok THEN Some(r.val) ELSE None

IncrementCounter ==
    \E domain \in PlainDomains :
      /\ result.n < TableCalls
      /\ TableCall("increment_counter", domain, <<>>,
                   increment_counter(DOMAIN_TABLE, structure, domain),
                   table_result(increment_counter(DOMAIN_TABLE, structure,
                                                  domain)),
                   ok_value(increment_counter(DOMAIN_TABLE, structure,
                                              domain)))

TableNext ==
    \/ SetCounter
    \/ SetRules
    \/ GetCounter
    \/ IncrementCounter

\* calls of the table functions from the empty table on
SpecTable == TableInit /\ [][TableNext]_vars

\* the slots of a table that hold a fingerprint
occupied(table) == {i \in 1..NumSlots : table[i].domain_hash # ZeroHash}

\* no slot of the table holds the fingerprint of d
absent(table, d) ==
    \A i \in 1..NumSlots : table[i].domain_hash # fingerprint(d)

\* this step is a call of set_counter or set_rules for domain d
Called(d) ==
    /\ result'.n = result.n + 1
    /\ result'.domain = d
    /\ result'.fn \in {"set_counter", "set_rules"}

\* C17: set_counter or set_rules for a domain whose fingerprint no slot
\* holds succeeds while a slot is free, one more slot being occupied and
\* holding the fingerprint (so NumSlots distinct domains set from the empty
\* table all succeed); once every slot is occupied, the call for a further
\* distinct domain returns the capacity error and leaves every slot as it
\* was.
C17_Step ==
    \A d \in Domains :
      (Called(d) /\ absent(DOMAIN_TABLE, d))
      => IF occupied(DOMAIN_TABLE) # 1..NumSlots
         THEN /\ result'.ret = "Ok"
              /\ Cardinality(occupied(DOMAIN_TABLE'))
                   = Cardinality(occupied(DOMAIN_TABLE)) + 1
              /\ ~absent(DOMAIN_TABLE', d)
              /\ \A i \in occupied(DOMAIN_TABLE) :
                   DOMAIN_TABLE'[i] = DOMAIN_TABLE[i]
         ELSE /\ result'.ret = TableFull
              /\ DOMAIN_TABLE' = DOMAIN_TABLE

C17_CapacityError == [][C17_Step]_vars

\* NumSlots calls for distinct domains filled the empty table and the next
\* call, for one more distinct domain, returned the capacity error
C17_Witness ==
    /\ result.n = NumSlots + 1
    /\ result.ret = TableFull
    /\ occupied(DOMAIN_TABLE) = 1..NumSlots
    /\ absent(DOMAIN_TABLE, result.domain)
    /\ Cardinality({DOMAIN_TABLE[i].domain_hash : i \in 1..NumSlots})
         = NumSlots

\* C18: set_counter or set_rules for a domain that has a slot succeeds, also
\* when every slot is occupied, and allocates nothing: every slot holds the
\* fingerprint it held, so the number of occupied slots is the same.
C18_Step ==
    \A d \in Domains :
      (Called(d) /\ ~absent(DOMAIN_TABLE, d))
      => /\ result'.ret = "Ok"
         /\ \A i \in 1..NumSlots :
              DOMAIN_TABLE'[i].domain_hash = DOMAIN_TABLE[i].domain_hash
         /\ Cardinality(occupied(DOMAIN_TABLE'))
              = Cardinality(occupied(DOMAIN_TABLE))

C18_ExistingNeverAllocates == [][C18_Step]_vars

\* every slot occupied, and the call after that, set_rules for a domain
\* that has a slot, succeeded and wrote the rules into that slot
C18_Witness ==
    /\ result.n = NumSlots + 1
    /\ result.fn = "set_rules"
    /\ result.ret = "Ok"
    /\ occupied(DOMAIN_TABLE) = 1..NumSlots
    /\ \E i \in 1..NumSlots :
         /\ DOMAIN_TABLE[i].domain_hash = fingerprint(result.domain)
         /\ DOMAIN_TABLE[i].counter \in TableCounters
         /\ <<DOMAIN_TABLE[i].max_length, DOMAIN_TABLE[i].char_types>>
              \in TableRules

(***************************************************************************)
(* hash_domain and the live derivation.  The engines are the ones the      *)
(* protocol loop reaches (after keystrokes, after ghost navigation), each  *)
(* also taken with another original_seed.                                  *)
(***************************************************************************)
\* original_seed values of the engine hash_domain is called on
LiveSeeds == {ProfileSeed, DOMAIN_HASH_SEED, 1}

\* the engine of the loop with original_seed s
engine_seeded(s) == [structure EXCEPT !.seed = s]

\* C19: hash_domain(d) leaves current_position, original_seed and
\* accumulated_path_memory as they were before the call, for every domain
\* and every engine the loop reaches, mid-derivation included.
C19_HashDomainRestores ==
    \A d \in Domains, s \in LiveSeeds :
      /\ hash_domain(engine_seeded(s), d).st.pos = structure.pos
      /\ hash_domain(engine_seeded(s), d).st.mem = structure.mem
      /\ hash_domain(engine_seeded(s), d).st.seed = s

\* GET_COUNTER, which calls hash_domain, answered after a keystroke had
\* moved the cursor and changed the path memory; both are as the keystroke
\* left them
C19_Witness ==
    /\ nmsgs = 2
    /\ message.type = <<"GET_COUNTER">>
    /\ message.domain = <<(<<97>>)>>
    /\ response.kind = "counter"
    /\ structure.pos # Origin
    /\ structure.mem # 0
    /\ feedbacks # <<>>

\* C20: hash_domain(d) returns the same 64 bytes whatever the cursor, the
\* path memory and the live seed of the engine: the bytes of an engine at
\* the origin, of every engine the loop reaches (before and after its
\* transform calls) with every live seed, and of a second call on the
\* engine the first call left are identical.
C20_HashDomainIndependent ==
    \A d \in Domains, s \in LiveSeeds :
      /\ Len(hash_domain(engine_seeded(s), d).hash) = HashLen
      /\ hash_domain(engine_seeded(s), d).hash
           = hash_domain(DecodedStructure, d).hash
      /\ hash_domain(hash_domain(engine_seeded(s), d).st, d).hash
           = hash_domain(DecodedStructure, d).hash

\* the session holds the fingerprint hash_domain returned when the domain
\* was activated, a keystroke then moved the cursor, and hash_domain on the
\* moved engine returns the fingerprint held
C20_Witness ==
    /\ nmsgs = 2
    /\ message.type = <<>>
    /\ response.kind = "output"
    /\ structure.pos # Origin
    /\ structure # DecodedStructure
    /\ SESSION.active_domain_hash
         = Some(hash_domain(structure, <<97>>).hash)

(***************************************************************************)
(* What the table functions store and return, on the calls of SpecTable.   *)
(***************************************************************************)
\* this step is a call of the table function fn for domain d
CalledFn(fn, d) ==
    /\ result'.n = result.n + 1
    /\ result'.fn = fn
    /\ result'.domain = d

\* the slots of a table that hold the fingerprint of d
slots_of(table, d) ==
    {i \in 1..NumSlots : table[i].domain_hash = fingerprint(d)}

\* min(c + 1, 65535)
next_counter(c) == IF c + 1 < 65535 THEN c + 1 ELSE 65535

\* C28: increment_counter(d) stores and returns min(c + 1, 65535), c being
\* the counter of d or 0 when d has no slot; for a d without a slot it
\* claims one and returns 1, and when every slot is occupied it returns the
\* capacity error and leaves the table as it was.
C28_Step ==
    \A d \in Domains :
      CalledFn("increment_counter", d)
      => IF absent(DOMAIN_TABLE, d) /\ occupied(DOMAIN_TABLE) = 1..NumSlots
         THEN /\ result'.ret = TableFull
              /\ result'.val = None
              /\ DOMAIN_TABLE' = DOMAIN_TABLE
         ELSE /\ result'.ret = "Ok"
              /\ result'.val
                   = Some(next_counter(stored_counter(DOMAIN_TABLE, d)))
              /\ \E i \in slots_of(DOMAIN_TABLE', d) :
                   DOMAIN_TABLE'[i].counter
                     = next_counter(stored_counter(DOMAIN_TABLE, d))
              /\ absent(DOMAIN_TABLE, d)
                 => /\ result'.val = Some(1)
                    /\ Cardinality(occupied(DOMAIN_TABLE'))
                         = Cardinality(occupied(DOMAIN_TABLE)) + 1

C28_IncrementSaturates == [][C28_Step]_vars

\* set_counter(d, 65535) claimed a slot and increment_counter(d) then
\* returned 65535, the counter of the slot staying 65535
C28_Witness ==
    /\ result.n = 2
    /\ result.fn = "increment_counter"
    /\ result.ret = "Ok"
    /\ result.val = Some(65535)
    /\ \E i \in slots_of(DOMAIN_TABLE, result.domain) :
         DOMAIN_TABLE[i].counter = 65535

\* C29: once set_counter(d, c) has returned Ok, get_counter(d) returns c,
\* on the table the call left and in the call that follows it; a slot is
\* taken as empty exactly when its fingerprint is 64 zero bytes.
C29_Step ==
    /\ \A d \in Domains :
         (CalledFn("set_counter", d) /\ result'.ret = "Ok")
         => get_counter(DOMAIN_TABLE', structure', d).val = Some(result'.arg[1])
    /\ \A d \in Domains :
         (/\ CalledFn("get_counter", d)
          /\ result.fn = "set_counter"
          /\ result.domain = d
          /\ result.ret = "Ok")
         => result'.val = Some(result.arg[1])
    /\ \A i \in 1..NumSlots :
         is_empty(DOMAIN_TABLE'[i])
           <=> (\A k \in 1..HashLen : DOMAIN_TABLE'[i].domain_hash[k] = 0)

C29_ReadYourWrite == [][C29_Step]_vars

\* set_counter(d, 7) on a table whose slots were all occupied, for a d that
\* had a slot, then get_counter(d) returned Some(7)
C29_Witness ==
    /\ result.n = NumSlots + 2
    /\ result.fn = "get_counter"
    /\ result.val = Some(7)
    /\ occupied(DOMAIN_TABLE) = 1..NumSlots
    /\ \E i \in slots_of(DOMAIN_TABLE, result.domain) :
         DOMAIN_TABLE[i].counter = 7

\* C30: a slot claimed by set_counter has max_length 0 and char_types 127,
\* one claimed by set_rules has counter 0; on a slot that exists
\* set_counter leaves max_length and char_types and set_rules leaves the
\* counter; no other slot changes.
C30_Step ==
    \A d \in Domains :
      Called(d)
      => \A i \in 1..NumSlots :
           IF result'.ret = "Ok" /\ i \in slots_of(DOMAIN_TABLE', d)
           THEN /\ result'.fn = "set_counter"
                   => /\ DOMAIN_TABLE'[i].counter = result'.arg[1]
                      /\ DOMAIN_TABLE'[i].max_length
                           = IF absent(DOMAIN_TABLE, d) THEN 0
                             ELSE DOMAIN_TABLE[i].max_length
                      /\ DOMAIN_TABLE'[i].char_types
                           = IF absent(DOMAIN_TABLE, d) THEN 127
                             ELSE DOMAIN_TABLE[i].char_types
                /\ result'.fn = "set_rules"
                   => /\ DOMAIN_TABLE'[i].max_length = result'.arg[1]
                      /\ DOMAIN_TABLE'[i].char_types = result'.arg[2]
                      /\ DOMAIN_TABLE'[i].counter
                           = IF absent(DOMAIN_TABLE, d) THEN 0
                             ELSE DOMAIN_TABLE[i].counter
           ELSE DOMAIN_TABLE'[i] = DOMAIN_TABLE[i]

C30_NewSlotDefaults == [][C30_Step]_vars

\* set_counter(d, 7) claimed a slot with the default rules, and set_rules
\* for the same d then wrote the rules and left the counter 7
C30_Witness ==
    /\ result.n = 2
    /\ result.fn = "set_rules"
    /\ result.ret = "Ok"
    /\ Cardinality(occupied(DOMAIN_TABLE)) = 1
    /\ \E i \in slots_of(DOMAIN_TABLE, result.domain) :
         /\ DOMAIN_TABLE[i].counter = 7
         /\ <<DOMAIN_TABLE[i].max_length, DOMAIN_TABLE[i].char_types>>
              = result.arg

(***************************************************************************)
(* The engine on its own: full_reset, reset_position, update_position and  *)
(* transform_char called on an engine whose cursor is anywhere within the  *)
(* bounds, the call kept in result.                                        *)
(***************************************************************************)
\* calls followed
EngineCalls == 3

\* cursors the calls start from: the origin, each bound, one unit inside
EngineCursors ==
    {Origin, [i \in 1..Dim |-> MinBound], [i \in 1..Dim |-> MaxBound],
     [i \in 1..Dim |-> MaxBound - Scale]}

EngineStarts ==
    {[pos |-> p, mem |-> m, seed |-> ProfileSeed] :
        p \in EngineCursors, m \in {0, 5}}

\* directions of update_position: along one axis, either way
EngineDirections ==
    {[i \in 1..Dim |-> IF i = a THEN sgn * Scale ELSE 0] :
        a \in 1..Dim, sgn \in {-1, 1}}

\* distances of update_position: 1 unit, a step, and max - min units
EngineDistances == {Scale, BaseStepSize, MaxBound - MinBound}

EngineInit ==
    /\ structure \in EngineStarts
    /\ result = NoCall
    /\ activated = None
    /\ sys = NoSys
    /\ procs = NoProcs
    /\ DOMAIN_TABLE = DomainTable_new
    /\ files = [exe |-> NoFile, bak |-> NoFile, new |-> NoFile]
    /\ SESSION = SessionState_empty
    /\ feedbacks = <<>>
    /\ message = NoMessage
    /\ response = NoResponse
    /\ running = FALSE
    /\ nmsgs = 0
    /\ rw = RwIdle
    /\ in_memory_cache = <<>>
    /\ metadata_cache = <<>>
    /\ saved_passwords = Ok(<<>>)

\* the engine a call leaves, and what it returned
EngineCall(fn, arg, st, val) ==
    /\ result.n < EngineCalls
    /\ structure' = st
    /\ result' = [fn |-> fn, domain |-> <<>>, arg |-> arg, ret |-> "()",
                  val |-> val, n |-> result.n + 1, prev |-> result.fn]
    /\ UNCHANGED <<SESSION, DOMAIN_TABLE, feedbacks, files, message, response,
                   running, nmsgs, storage_vars, sys, procs, activated>>

FullReset == EngineCall("full_reset", <<>>, full_reset(structure), None)

ResetPosition ==
    EngineCall("reset_position", <<>>, reset_position(structure), None)

UpdatePosition ==
    \E direction \in EngineDirections, distance \in EngineDistances :
      EngineCall("update_position", <<direction, distance>>,
                 update_position(structure, direction, distance), None)

TransformChar ==
    \E keycode \in {65, 97} :
      EngineCall("transform_char", <<keycode>>,
                 transform_char(structure, keycode, ExtraCharsCount).st,
                 Some(transform_char(structure, keycode,
                                     ExtraCharsCount).out))

EngineNext ==
    \/ FullReset
    \/ ResetPosition
    \/ UpdatePosition
    \/ TransformChar

\* calls of the engine's functions
SpecEngine == EngineInit /\ [][EngineNext]_vars

\* this step is a call of the engine function fn
EngineCalled(fn) == result'.n = result.n + 1 /\ result'.fn = fn

\* C22: full_reset puts the cursor at the origin and the path memory at 0
\* and leaves the rest of the engine; a second full_reset right after one
\* leaves the state the first left; reset_position puts the path memory at
\* 0 and leaves the cursor and the rest.
C22_Step ==
    /\ EngineCalled("full_reset")
       => /\ structure' = [structure EXCEPT !.pos = [i \in 1..Dim |-> 0],
                                            !.mem = 0]
          /\ result.fn = "full_reset" => structure' = structure
    /\ EngineCalled("reset_position")
       => structure' = [structure EXCEPT !.mem = 0]

C22_FullResetIdempotent == [][C22_Step]_vars

\* the second and the third call were full_reset, one right after the
\* other: the engine is at the origin with path memory 0
C22_Witness ==
    /\ result.n = 3
    /\ result.fn = "full_reset"
    /\ result.prev = "full_reset"
    /\ structure.pos = Origin
    /\ structure.mem = 0

\* the candidate coordinate of axis i in a call of update_position
candidate(st, arg, i) == st.pos[i] + TDiv(arg[1][i] * arg[2], Scale)

\* C23: update_position takes each axis to the candidate coordinate when
\* that is within the bounds, to min + (min - candidate) when it is below
\* min and to max - (candidate - max) when it is above max, reflecting
\* once: a candidate 1 unit past a bound lands 1 unit inside it, one
\* max - min units past a bound lands on the opposite bound.
C23_Step ==
    EngineCalled("update_position")
    => \A i \in 1..Dim :
         /\ candidate(structure, result'.arg, i) < MinBound
            => structure'.pos[i]
                 = MinBound + (MinBound - candidate(structure, result'.arg, i))
         /\ candidate(structure, result'.arg, i) > MaxBound
            => structure'.pos[i]
                 = MaxBound - (candidate(structure, result'.arg, i) - MaxBound)
         /\ candidate(structure, result'.arg, i) \in MinBound..MaxBound
            => structure'.pos[i] = candidate(structure, result'.arg, i)
         /\ candidate(structure, result'.arg, i) = MaxBound + Scale
            => structure'.pos[i] = MaxBound - Scale
         /\ candidate(structure, result'.arg, i) = MinBound - Scale
            => structure'.pos[i] = MinBound + Scale
         /\ candidate(structure, result'.arg, i)
              = MaxBound + (MaxBound - MinBound)
            => structure'.pos[i] = MinBound
         /\ candidate(structure, result'.arg, i)
              = MinBound - (MaxBound - MinBound)
            => structure'.pos[i] = MaxBound

C23_ReflectsOnce == [][C23_Step]_vars

\* the first call moved max - min units outwards along an axis and left the
\* cursor on the lower bound of that axis: it started on the upper bound
C23_Witness ==
    /\ result.n = 1
    /\ result.fn = "update_position"
    /\ result.arg[2] = MaxBound - MinBound
    /\ \E i \in 1..Dim :
         /\ result.arg[1][i] = Scale
         /\ structure.pos[i] = MinBound

(***************************************************************************)
(* The whole structure system: StructureSystem::new, generate_structure    *)
(* with an empty initial phrase, and the geometry it builds.  A point is a *)
(* sequence of Dim whole coordinates; the bounds, the step size, the       *)
(* variance and the cursor are in thousandths.                             *)
(***************************************************************************)
\* StructurePoint::new
StructurePoint_new(dimensions) == [d \in 1..dimensions |-> 0]

RECURSIVE rng_after(_, _)
\* rng_state after k steps of the generator from seed
rng_after(seed, k) == IF k = 0 THEN seed % WordMod ELSE Lcg(rng_after(seed, k - 1))

\* StructurePoint::from_seed
StructurePoint_from_seed(seed, dimensions, range) ==
    [d \in 1..dimensions |-> (rng_after(seed, d) % (range * 2)) - range]

\* StructureSystem::new
StructureSystem_new(seed, dimensions, range) ==
    [dimensions |-> dimensions,
     active_points |-> {},
     char_to_point |-> <<>>,
     coordinate_range |-> range,
     original_seed |-> seed,
     name |-> <<100, 101, 102, 97, 117, 108, 116>>,
     character_set |-> <<>>,
     current_position |-> [d \in 1..dimensions |-> 0],
     structure_bounds |-> [lo |-> [d \in 1..dimensions |-> MinBound],
                           hi |-> [d \in 1..dimensions |-> MaxBound]],
     base_step_size |-> BaseStepSize,
     step_variance |-> StepVariance,
     accumulated_path_memory |-> 0]

\* create_path: six points from start to end
create_path(start, end) ==
    {[d \in DOMAIN start |->
        start[d] + TDiv((end[d] - start[d]) * step, 5)] : step \in 0..5}

\* create_deterministic_spike
create_deterministic_spike(center, size, seed) ==
    {[d \in DOMAIN center |->
        center[d] + ((rng_after(seed, d) % 3) - 1) * i] : i \in 1..size}

\* create_deterministic_blob
create_deterministic_blob(center, size, seed) ==
    {[d \in DOMAIN center |->
        center[d] + (rng_after(seed, j * Len(center) + d) % 5) - 2] :
        j \in 0..(size - 1)}

\* (radius * cos(angle)) as i32 and (radius * sin(angle)) as i32 of the
\* ring of size 7, radius 7 / 3 = 2, angle 2 pi i / 7
RingOffsets ==
    << <<2, 0>>, <<1, 1>>, <<0, 1>>, <<-1, 0>>, <<-1, 0>>, <<0, -1>>,
       <<1, -1>> >>

\* create_deterministic_ring of size 7: nothing moves with one dimension
create_deterministic_ring(center, seed) ==
    {[d \in DOMAIN center |->
        IF Len(center) >= 2 /\ d <= 2 THEN center[d] + RingOffsets[i + 1][d]
        ELSE IF d = 3 THEN center[d] + (rng_after(seed, i + 1) % 5) - 2
        ELSE center[d]] : i \in 0..6}

\* the same of the spiral of size 8, radius i / 2, angle i pi / 4
SpiralOffsets ==
    << <<0, 0>>, <<0, 1>>, <<0, 0>>, <<-2, 0>>, <<-1, -1>>, <<0, -3>>,
       <<2, -2>>, <<4, 0>> >>

\* create_deterministic_spiral of size 8
create_deterministic_spiral(center, seed) ==
    {[d \in DOMAIN center |->
        IF Len(center) >= 2 /\ d <= 2 THEN center[d] + SpiralOffsets[i][d]
        ELSE IF d = 3
        THEN center[d]
             + (rng_after(seed, (i - 1) * (Len(center) - 2) + 1) % 3)
             + i \div 3
        ELSE IF d >= 4
        THEN center[d]
             + (rng_after(seed, (i - 1) * (Len(center) - 2) + d - 2) % 7)
             - 3
        ELSE center[d]] : i \in 1..8}

\* create_deterministic_scatter
create_deterministic_scatter(center, size, seed) ==
    {[d \in DOMAIN center |->
        center[d] + (rng_after(seed, j * Len(center) + d) % 11) - 5] :
        j \in 0..(size - 1)}

\* create_basic_structure: the feature around the point of one keycode
basic_feature(point, feature_seed) ==
    CASE feature_seed % 5 = 0 -> create_deterministic_spike(point, 5,
                                                            feature_seed)
      [] feature_seed % 5 = 1 -> create_deterministic_blob(point, 6,
                                                           feature_seed)
      [] feature_seed % 5 = 2 -> create_deterministic_ring(point, feature_seed)
      [] feature_seed % 5 = 3 -> create_deterministic_spiral(point,
                                                             feature_seed)
      [] OTHER -> create_deterministic_scatter(point, 5, feature_seed)

\* create_basic_structure: the paths between consecutive values of
\* char_to_point, points being those values in the map's iteration order
basic_paths(points) ==
    UNION {create_path(points[i], points[i + 1]) :
             i \in {k \in 1..Len(points) : k <= 30 /\ k + 1 <= Len(points)}}

\* create_basic_structure: the points it inserts
create_basic_structure(s, keycodes, values) ==
    UNION {{s.char_to_point[keycodes[k]]}
           \union basic_feature(s.char_to_point[keycodes[k]],
                                Xor(s.original_seed, keycodes[k])) :
             k \in 1..Len(keycodes)}
    \union basic_paths([k \in 1..Len(values) |-> s.char_to_point[values[k]]])

\* the least and the greatest of a set of integers
Min(S) == CHOOSE x \in S : \A y \in S : x <= y
Max(S) == CHOOSE x \in S : \A y \in S : x >= y

\* calculate_structure_bounds: padding 10.0 around the active points
calculate_structure_bounds(s) ==
    [s EXCEPT !.structure_bounds =
        [lo |-> [d \in 1..s.dimensions |->
                   Min({p[d] : p \in s.active_points}) * Scale - 10 * Scale],
         hi |-> [d \in 1..s.dimensions |->
                   Max({p[d] : p \in s.active_points}) * Scale + 10 * Scale]]]

\* generate_structure: the anchors of the keycodes
with_anchors(s, keycodes) ==
    [s EXCEPT
       !.character_set = keycodes,
       !.active_points = {StructurePoint_new(s.dimensions)},
       !.char_to_point =
          [k \in {keycodes[i] : i \in 1..Len(keycodes)} |->
             StructurePoint_from_seed(Xor(s.original_seed, k), s.dimensions,
                                      s.coordinate_range)]]

\* generate_structure: the basic structure added to the anchored system
with_basic_structure(s, keycodes, values) ==
    [s EXCEPT !.active_points =
                 s.active_points
                 \union create_basic_structure(s, keycodes, values)]

\* generate_structure(&[], keycodes); values is the order in which
\* char_to_point.values() yields the anchors
generate_structure(s, keycodes, values) ==
    calculate_structure_bounds(
        with_basic_structure(with_anchors(s, keycodes), keycodes, values))

(***************************************************************************)
(* StructureSystem::to_bytes and from_bytes.  Every number is written with *)
(* to_ne_bytes and read with from_ne_bytes, so in the byte order ne of the *)
(* build: "little" or "big".                                               *)
(***************************************************************************)
ByteOrders == {"little", "big"}

\* the bytes of a number in the build's order, from its little-endian bytes
ne_bytes(le, ne) == IF ne = "little" THEN le ELSE Reverse(le)

RECURSIVE Log2(_)
\* the exponent of a whole number: the position of its leading bit
Log2(v) == IF v < 2 THEN 0 ELSE 1 + Log2(v \div 2)

RECURSIVE Pow2(_)
Pow2(e) == IF e = 0 THEN 1 ELSE 2 * Pow2(e - 1)

\* the eight little-endian bytes of the f64 of x thousandths, x a whole
\* number of units from 1 to 31: sign 0, exponent 1023 + e in eleven bits,
\* then the fraction, whose leading four bits are the only ones set
f64_bytes(x) ==
    <<0, 0, 0, 0, 0, 0,
      ((1023 + Log2(x \div Scale)) % 16) * 16
        + (((x \div Scale) * 16) \div Pow2(Log2(x \div Scale))) - 16,
      (1023 + Log2(x \div Scale)) \div 16>>

\* u32::from_ne_bytes of the four bytes at offset
u32_ne_at(bytes, offset, ne) ==
    u32_at(ne_bytes(slice(bytes, offset, offset + 4), ne), 0)

\* i32::from_ne_bytes of four little-endian bytes
i32_of(le) ==
    le[1] + 256 * le[2] + 65536 * le[3]
    + 16777216 * (IF le[4] >= 128 THEN le[4] - 256 ELSE le[4])

\* i32::from_ne_bytes of the four bytes at offset
i32_ne_at(bytes, offset, ne) ==
    i32_of(ne_bytes(slice(bytes, offset, offset + 4), ne))

\* u64::from_ne_bytes of the eight bytes at offset, as a word
u64_ne_at(bytes, offset, ne) ==
    u32_at(ne_bytes(slice(bytes, offset, offset + 8), ne), 0) % WordMod

\* the thousandths of the f64 of eight little-endian bytes
f64_of(le) ==
    (Pow2(le[8] * 16 + (le[7] \div 16) - 1023) * (16 + (le[7] % 16)) * Scale)
    \div 16

\* f64::from_ne_bytes of the eight bytes at offset
f64_ne_at(bytes, offset, ne) ==
    f64_of(ne_bytes(slice(bytes, offset, offset + 8), ne))

\* StructurePoint::to_bytes
StructurePoint_to_bytes(point, ne) ==
    LET coord_bytes[d \in 0..Len(point)] ==
            IF d = 0 THEN <<>>
            ELSE coord_bytes[d - 1] \o ne_bytes(u32_bytes(point[d]), ne)
    IN ne_bytes(u32_bytes(Len(point)), ne) \o coord_bytes[Len(point)]

RECURSIVE iteration(_)
\* the elements of a hash set in an order of iteration
iteration(S) ==
    IF S = {} THEN <<>>
    ELSE LET x == CHOOSE y \in S : TRUE IN <<x>> \o iteration(S \ {x})

\* to_bytes: the bytes of a sequence of chunks, one after the other
RECURSIVE concat(_)
concat(chunks) ==
    IF chunks = <<>> THEN <<>> ELSE Head(chunks) \o concat(Tail(chunks))

\* StructureSystem::to_bytes; values is the order in which char_to_point
\* yields its keys
StructureSystem_to_bytes(s, values, ne) ==
    ne_bytes(u32_bytes(s.dimensions), ne)
    \o ne_bytes(u32_bytes(s.coordinate_range), ne)
    \o ne_bytes(u64_bytes(s.original_seed), ne)
    \o ne_bytes(u32_bytes(Len(s.name)), ne) \o s.name
    \o ne_bytes(u32_bytes(Len(s.character_set)), ne)
    \o concat([k \in 1..Len(s.character_set) |->
                 ne_bytes(u32_bytes(s.character_set[k]), ne)])
    \o ne_bytes(u32_bytes(Cardinality(s.active_points)), ne)
    \o concat([k \in 1..Cardinality(s.active_points) |->
                 StructurePoint_to_bytes(iteration(s.active_points)[k], ne)])
    \o ne_bytes(u32_bytes(Cardinality(DOMAIN s.char_to_point)), ne)
    \o concat([k \in 1..Len(values) |->
                 ne_bytes(u32_bytes(values[k]), ne)
                 \o StructurePoint_to_bytes(s.char_to_point[values[k]], ne)])
    \o ne_bytes(f64_bytes(s.base_step_size), ne)
    \o ne_bytes(f64_bytes(s.step_variance), ne)
    \o <<s.accumulated_path_memory>>

\* the length of the tail of to_bytes: step size, variance, path memory
TailLen == 17

\* StructurePoint::from_bytes(&bytes[offset..])
StructurePoint_from_bytes(bytes, offset, ne) ==
    IF Len(bytes) - offset < 4
    THEN Err("Invalid data: not enough bytes for StructurePoint")
    ELSE IF Len(bytes) - offset < 4 + u32_ne_at(bytes, offset, ne) * 4
    THEN Err("Invalid data: not enough bytes for coordinates")
    ELSE Ok([point |-> [d \in 1..u32_ne_at(bytes, offset, ne) |->
                          i32_ne_at(bytes, offset + 4 * d, ne)],
             bytes_read |-> 4 + u32_ne_at(bytes, offset, ne) * 4])

\* from_bytes: accumulated_path_memory, read at offset when a byte is there
decode_path_memory(bytes, offset, fields, steps) ==
    Ok([dimensions |-> fields.dimensions,
        active_points |-> fields.active_points,
        char_to_point |-> fields.char_to_point,
        coordinate_range |-> fields.coordinate_range,
        original_seed |-> fields.original_seed,
        name |-> fields.name,
        character_set |-> fields.character_set,
        current_position |-> [d \in 1..fields.dimensions |-> 0],
        structure_bounds |->
            [lo |-> [d \in 1..fields.dimensions |-> MinBound],
             hi |-> [d \in 1..fields.dimensions |-> MaxBound]],
        base_step_size |-> steps[1],
        step_variance |-> steps[2],
        accumulated_path_memory |->
            IF Len(bytes) >= offset + 1 THEN bytes[offset + 1] ELSE 0])

\* from_bytes: base_step_size and step_variance, read and passed over when
\* sixteen bytes are there, 3.0 and 2.0 with the offset left where it is
\* when they are not
decode_steps(bytes, offset, fields, ne) ==
    IF Len(bytes) >= offset + 16
    THEN decode_path_memory(bytes, offset + 16, fields,
                            <<f64_ne_at(bytes, offset, ne),
                              f64_ne_at(bytes, offset + 8, ne)>>)
    ELSE decode_path_memory(bytes, offset, fields,
                            <<BaseStepSize, StepVariance>>)

RECURSIVE decode_mappings(_, _, _, _, _, _)
\* from_bytes: the entries of char_to_point that a read point continues
decode_mapping_read(bytes, offset, n, fields, ne, keycode, read) ==
    IF read.kind = "Err" THEN read
    ELSE decode_mappings(bytes, offset + read.value.bytes_read, n - 1,
             [fields EXCEPT !.char_to_point =
                 [k \in DOMAIN fields.char_to_point \union {keycode} |->
                    IF k = keycode THEN read.value.point
                    ELSE fields.char_to_point[k]]],
             ne, 0)

\* from_bytes: for _ in 0..mapping_count
decode_mappings(bytes, offset, n, fields, ne, unused) ==
    IF n = 0 THEN decode_steps(bytes, offset, fields, ne)
    ELSE IF Len(bytes) < offset + 4
    THEN Err("Invalid data: not enough bytes for keycode")
    ELSE IF offset + 4 >= Len(bytes)
    THEN Err("Invalid data: not enough bytes for point")
    ELSE decode_mapping_read(bytes, offset + 4, n, fields, ne,
                             u32_ne_at(bytes, offset, ne),
                             StructurePoint_from_bytes(bytes, offset + 4, ne))

\* from_bytes: mapping_count
decode_mapping_count(bytes, offset, fields, ne) ==
    IF Len(bytes) < offset + 4
    THEN Err("Invalid data: not enough bytes for char_to_point count")
    ELSE decode_mappings(bytes, offset + 4, u32_ne_at(bytes, offset, ne),
                         [fields EXCEPT !.char_to_point = <<>>], ne, 0)

RECURSIVE decode_points(_, _, _, _, _)
\* from_bytes: the active points that a read point continues
decode_point_read(bytes, offset, n, fields, ne, read) ==
    IF read.kind = "Err" THEN read
    ELSE decode_points(bytes, offset + read.value.bytes_read, n - 1,
             [fields EXCEPT !.active_points = @ \union {read.value.point}],
             ne)

\* from_bytes: for _ in 0..active_points_count
decode_points(bytes, offset, n, fields, ne) ==
    IF n = 0 THEN decode_mapping_count(bytes, offset, fields, ne)
    ELSE IF offset >= Len(bytes)
    THEN Err("Invalid data: not enough bytes for active point Z")
    ELSE decode_point_read(bytes, offset, n, fields, ne,
                           StructurePoint_from_bytes(bytes, offset, ne))

\* from_bytes: active_points_count
decode_points_count(bytes, offset, fields, ne) ==
    IF Len(bytes) < offset + 4
    THEN Err("Invalid data: not enough bytes for active points count")
    ELSE decode_points(bytes, offset + 4, u32_ne_at(bytes, offset, ne),
                       [fields EXCEPT !.active_points = {}], ne)

RECURSIVE decode_codes(_, _, _, _, _)
\* from_bytes: for _ in 0..char_set_len
decode_codes(bytes, offset, n, fields, ne) ==
    IF n = 0 THEN decode_points_count(bytes, offset, fields, ne)
    ELSE IF Len(bytes) < offset + 4
    THEN Err("Invalid data: not enough bytes for character INI")
    ELSE decode_codes(bytes, offset + 4, n - 1,
             [fields EXCEPT !.character_set =
                 Append(@, u32_ne_at(bytes, offset, ne))], ne)

\* from_bytes: char_set_len
decode_codes_count(bytes, offset, fields, ne) ==
    IF Len(bytes) < offset + 4
    THEN Err("Invalid data: not enough bytes for character set you selected for")
    ELSE decode_codes(bytes, offset + 4, u32_ne_at(bytes, offset, ne),
                      [fields EXCEPT !.character_set = <<>>], ne)

\* from_bytes: the name, its length at offset
decode_name(bytes, offset, fields, ne) ==
    IF Len(bytes) < offset + 4
    THEN Err("Invalid data: not enough bytes for name data")
    ELSE IF Len(bytes) < offset + 4 + u32_ne_at(bytes, offset, ne)
    THEN Err("Invalid data: not enough bytes for nameu")
    ELSE IF ~is_utf8(slice(bytes, offset + 4,
                           offset + 4 + u32_ne_at(bytes, offset, ne)))
    THEN Err("Invalid UTF-8 in name")
    ELSE decode_codes_count(bytes,
             offset + 4 + u32_ne_at(bytes, offset, ne),
             [fields EXCEPT !.name =
                 slice(bytes, offset + 4,
                       offset + 4 + u32_ne_at(bytes, offset, ne))], ne)

\* StructureSystem::from_bytes
StructureSystem_from_bytes(bytes, ne) ==
    IF Len(bytes) < 16
    THEN Err("Invalid data: not enough bytes for StructureSystem")
    ELSE decode_name(bytes, 16,
             [dimensions |-> u32_ne_at(bytes, 0, ne),
              coordinate_range |-> i32_ne_at(bytes, 4, ne),
              original_seed |-> u64_ne_at(bytes, 8, ne),
              name |-> <<>>, character_set |-> <<>>, active_points |-> {},
              char_to_point |-> <<>>], ne)

(***************************************************************************)
(* transform_char on a whole structure system: the movement from its own   *)
(* step size and variance, the reflection at its own structure_bounds.     *)
(***************************************************************************)
\* the cursor, the path memory and the seed of a system
system_engine(s) ==
    [pos |-> s.current_position, mem |-> s.accumulated_path_memory,
     seed |-> s.original_seed]

\* update_position: the reflection of one candidate coordinate at the
\* bounds of its axis
reflect_within(new_coord, min_bound, max_bound) ==
    IF new_coord < min_bound THEN min_bound + (min_bound - new_coord)
    ELSE IF new_coord > max_bound THEN max_bound - (new_coord - max_bound)
    ELSE new_coord

\* update_position: the cursor and the path memory it leaves
system_moved(s, moved) ==
    [s EXCEPT !.current_position = moved.pos,
              !.accumulated_path_memory = moved.mem]

\* StructureSystem::update_position with self.structure_bounds
system_update_position(s, direction, distance) ==
    system_moved(s,
        with_path_memory(system_engine(s),
            [i \in 1..Dim |->
               reflect_within(
                   s.current_position[i]
                     + TDiv(direction[i] * distance, Scale),
                   s.structure_bounds.lo[i], s.structure_bounds.hi[i])]))

\* StructureSystem::generate_distance with self.base_step_size and
\* self.step_variance
system_generate_distance(s, seed) ==
    s.base_step_size + TDiv(ToUnit(Lcg(seed)) * s.step_variance, Scale)

\* transform_char after calculate_movement: the move, then the output over
\* the character set, which is CharacterSet in every system built here
system_transform_along(s, direction, distance, extra_chars_count) ==
    [s |-> system_update_position(s, direction, distance),
     out |-> generate_output_from_path(
                 system_engine(system_update_position(s, direction,
                                                      distance)),
                 s.current_position, direction, distance,
                 extra_chars_count)]

\* calculate_movement: the movement seed
system_movement_seed(s, keycode) ==
    Xor(Xor(s.original_seed,
            hash_position(s.current_position, s.original_seed)), keycode)

\* StructureSystem::transform_char on a whole system
system_transform_char(s, keycode, extra_chars_count) ==
    system_transform_along(s,
        generate_direction(system_movement_seed(s, keycode)),
        system_generate_distance(s, system_movement_seed(s, keycode)),
        extra_chars_count)

(***************************************************************************)
(* A structure system generated as run_simple_setup generates it, encoded, *)
(* decoded from all of its bytes or from its bytes short of some of the    *)
(* tail, and the generated and the decoded system fed the same keycodes    *)
(* from the same cursor.                                                   *)
(***************************************************************************)
\* keycodes fed to the two systems
MaxInputs == 2

\* seeds of the generated systems
CodecSeeds == {ProfileSeed, 1}

\* orders in which char_to_point yields its entries
ValueOrders == {CharacterSet, Reverse(CharacterSet)}

\* run_simple_setup: the system generated, then named and reset by
\* create_password_setup
generated_system(seed, values) ==
    [generate_structure(StructureSystem_new(seed, Dim, 10 + Dim),
                        CharacterSet, values)
       EXCEPT !.name = <<109, 97, 105, 110>>,
              !.current_position = [d \in 1..Dim |-> 0],
              !.accumulated_path_memory = 0]

CodecInit ==
    /\ sys = NoSys
    /\ structure = DecodedStructure
    /\ result = NoCall
    /\ activated = None
    /\ procs = NoProcs
    /\ DOMAIN_TABLE = DomainTable_new
    /\ files = [exe |-> NoFile, bak |-> NoFile, new |-> NoFile]
    /\ SESSION = SessionState_empty
    /\ feedbacks = <<>>
    /\ message = NoMessage
    /\ response = NoResponse
    /\ running = FALSE
    /\ nmsgs = 0
    /\ rw = RwIdle
    /\ in_memory_cache = <<>>
    /\ metadata_cache = <<>>
    /\ saved_passwords = Ok(<<>>)

\* what the steps of this specification leave alone
codec_unchanged ==
    UNCHANGED <<SESSION, DOMAIN_TABLE, structure, feedbacks, files, message,
                response, running, nmsgs, storage_vars, result, procs,
                activated>>

\* run_simple_setup on a build of byte order ne
GenerateStructure ==
    /\ sys.op = "none"
    /\ \E seed \in CodecSeeds, values \in ValueOrders, ne \in ByteOrders :
         sys' = [sys EXCEPT !.op = "generated", !.ne = ne,
                            !.values = values,
                            !.original = Some(generated_system(seed, values))]
    /\ codec_unchanged

\* StructureSystem::to_bytes of the generated system
ToBytes ==
    /\ sys.op = "generated"
    /\ sys' = [sys EXCEPT !.op = "encoded",
                          !.bytes = StructureSystem_to_bytes(
                                        sys.original[1], sys.values, sys.ne)]
    /\ codec_unchanged

\* StructureSystem::from_bytes of the bytes, all of them or short of the
\* last bytes of the tail
FromBytes ==
    /\ sys.op = "encoded"
    /\ \E tail \in 0..TailLen :
         sys' = [sys EXCEPT
                   !.op = "decoded", !.tail = tail,
                   !.decoded = StructureSystem_from_bytes(
                                   Take(sys.bytes,
                                        Len(sys.bytes) - TailLen + tail),
                                   sys.ne)]
    /\ codec_unchanged

\* the generated and the decoded system can both have their cursor at c
within_both(c) ==
    \A d \in 1..Dim :
      /\ c[d] >= sys.original[1].structure_bounds.lo[d]
      /\ c[d] <= sys.original[1].structure_bounds.hi[d]
      /\ c[d] >= sys.decoded.value.structure_bounds.lo[d]
      /\ c[d] <= sys.decoded.value.structure_bounds.hi[d]

\* cursors the two systems are started from: the origin, and a unit inside
\* each bound of the generated system
CodecCursors ==
    {c \in {Origin,
            [d \in 1..Dim |-> sys.original[1].structure_bounds.hi[d] - Scale],
            [d \in 1..Dim |-> sys.original[1].structure_bounds.lo[d] + Scale]} :
       within_both(c)}

\* the systems decoded from all of the bytes
decoded_whole ==
    /\ sys.op \in {"decoded", "placed", "moved"}
    /\ sys.tail = TailLen
    /\ sys.decoded.kind = "Ok"

\* both systems with their cursor at the same place
PlaceCursor ==
    /\ decoded_whole
    /\ sys.op = "decoded"
    /\ \E c \in CodecCursors :
         sys' = [sys EXCEPT
                   !.op = "placed",
                   !.original = Some([sys.original[1] EXCEPT
                                        !.current_position = c]),
                   !.decoded = Ok([sys.decoded.value EXCEPT
                                     !.current_position = c])]
    /\ codec_unchanged

\* the two systems after transform_char on the same keycode
both_transformed(keycode, a, b) ==
    [sys EXCEPT !.op = "moved",
                !.inputs = Append(@, keycode),
                !.original = Some(a.s),
                !.decoded = Ok(b.s),
                !.out_original = @ \o a.out,
                !.out_decoded = @ \o b.out]

\* transform_char on both systems, the same keycode
TransformBoth ==
    /\ decoded_whole
    /\ Len(sys.inputs) < MaxInputs
    /\ \E keycode \in {65, 97} :
         sys' = both_transformed(keycode,
                    system_transform_char(sys.original[1], keycode,
                                          ExtraCharsCount),
                    system_transform_char(sys.decoded.value, keycode,
                                          ExtraCharsCount))
    /\ codec_unchanged

CodecNext ==
    \/ GenerateStructure
    \/ ToBytes
    \/ FromBytes
    \/ PlaceCursor
    \/ TransformBoth

\* a structure system through to_bytes and from_bytes
SpecCodec == CodecInit /\ [][CodecNext]_vars

\* C21: a generated structure system and the one decoded from its bytes,
\* started from the same cursor and fed the same keycodes, put out the
\* same characters.
C21_RoundTripSameOutput ==
    sys.op = "moved" => sys.out_original = sys.out_decoded

\* C24: from_bytes of the bytes of a structure system short of some or all
\* of the seventeen bytes of the tail succeeds with base step 3.0,
\* variance 2.0 and path memory 0.
C24_ShortTailDefaults ==
    (sys.op = "decoded" /\ sys.tail \in 0..16)
    => /\ sys.decoded.kind = "Ok"
       /\ sys.decoded.value.base_step_size = 3000
       /\ sys.decoded.value.step_variance = 2000
       /\ sys.decoded.value.accumulated_path_memory = 0

(***************************************************************************)
(* Two instances on one executable: the protocol loop, and beside it a run *)
(* of the program with --set-counter, which is a process of its own with a *)
(* table of its own and shares only the file.                              *)
(***************************************************************************)
\* the domains and the counters of the --set-counter run
CliDomains == {<<98>>}
CliCounters == {9}

\* the table the executable holds
table_on_disk(fs) == load_from_binary(fs, DomainTable_new)

\* main, --set-counter after load_from_binary and set_counter: an error of
\* set_counter ends the run, otherwise save_to_binary
cli_saved(fs, sc) ==
    IF sc.ok THEN save_to_binary(fs, sc.table, "none").fs ELSE fs

\* main, --set-counter, the whole run of the other instance
CliSetCounter ==
    \E domain \in CliDomains, counter \in CliCounters :
      /\ running
      /\ stored_counter(table_on_disk(files), domain) # counter
      /\ files' = cli_saved(files,
                      set_counter(table_on_disk(files), DecodedStructure,
                                  domain, counter))
      /\ UNCHANGED <<SESSION, DOMAIN_TABLE, structure, feedbacks, message,
                     response, running, nmsgs, storage_vars, side_vars>>

InstancesNext ==
    \/ Next
    \/ CliSetCounter

\* the protocol loop and a --set-counter run on the same executable
SpecInstances == Init /\ [][InstancesNext]_vars

\* C25: a SET_COUNTER of the loop for one domain, whose save did not lose
\* the executable, leaves the counter the executable holds for every other
\* domain (of another fingerprint) as it was, whichever instance had saved
\* it.
C25_Step ==
    \A d, e \in PlainDomains :
      (/\ d # e
       /\ fingerprint(d) # fingerprint(e)
       /\ Received("SET_COUNTER")
       /\ message'.domain = <<e>>
       /\ exists(files'.exe))
      => stored_counter(table_on_disk(files'), d)
           = stored_counter(table_on_disk(files), d)

C25_OtherCountersKept == [][C25_Step]_vars

\* C26: a store of a manager that is not in parent mode and has a message
\* channel sends BinaryUpdated once, in the step that renames the temp file
\* onto the executable path and returns Ok, the executable then holding the
\* new content; no other step of a store sends anything, so a store that
\* fails sends nothing.
C26_Step ==
    /\ (/\ rw.op = "store"
        /\ rw.pc = "replace"
        /\ rw'.pc = "idle"
        /\ rw'.ret = "Ok"
        /\ ~rw.parent_mode
        /\ rw.message_tx)
       => /\ rw'.sent = Append(rw.sent, "BinaryUpdated")
          /\ exists(files'.exe)
          /\ files'.exe.data = rw.content
    /\ (rw'.op = "store" /\ rw'.sent # rw.sent)
       => /\ rw.op = "store"
          /\ rw.pc = "replace"
          /\ rw'.ret = "Ok"
          /\ files'.exe.data = rw.content
    /\ (rw'.op = "store" /\ rw'.ret = "Err") => rw'.sent = rw.sent

C26_StoreSignalsOnce == [][C26_Step]_vars

\* the first operation was a store with a channel and it returned Ok: one
\* message was sent and the executable holds what the store wrote
C26_Witness ==
    /\ rw.op = "store"
    /\ rw.count = 1
    /\ rw.pc = "idle"
    /\ rw.ret = "Ok"
    /\ rw.message_tx
    /\ rw.sent = <<"BinaryUpdated">>
    /\ files.exe.data = rw.content

(***************************************************************************)
(* The supervising parent and its child.  run_parent_process makes two     *)
(* channels and spawns the executable again as the child, a process of its *)
(* own; run_child_process makes two channels of its own.  A channel lives  *)
(* in the memory of the process that made it: what a process sends arrives *)
(* in the receiver that the same process holds.                            *)
(***************************************************************************)
\* stores the child goes through in interactive mode
MaxStores == 6

\* the executable as the parent finds it: without its end marker, set up
\* without a profile, or holding one
ProcsInit ==
    /\ procs \in {[NoProcs EXCEPT !.parent = "start", !.fresh = f,
                                   !.profiles = h, !.auto_exit = a] :
                    f \in BOOLEAN, h \in BOOLEAN, a \in BOOLEAN}
    /\ procs.fresh => ~procs.profiles
    /\ sys = NoSys
    /\ structure = DecodedStructure
    /\ result = NoCall
    /\ activated = None
    /\ DOMAIN_TABLE = DomainTable_new
    /\ files = [exe |-> NoFile, bak |-> NoFile, new |-> NoFile]
    /\ SESSION = SessionState_empty
    /\ feedbacks = <<>>
    /\ message = NoMessage
    /\ response = NoResponse
    /\ running = FALSE
    /\ nmsgs = 0
    /\ rw = RwIdle
    /\ in_memory_cache = <<>>
    /\ metadata_cache = <<>>
    /\ saved_passwords = Ok(<<>>)

\* what the steps of the processes leave alone
procs_unchanged ==
    UNCHANGED <<SESSION, DOMAIN_TABLE, structure, feedbacks, files, message,
                response, running, nmsgs, storage_vars, result, sys,
                activated>>

\* run_parent_process after a message of its loop: child.try_wait()
try_wait(p) == IF p.child = "exited" THEN [p EXCEPT !.parent = "wait"] ELSE p

\* run_parent_process, the loop: what follows the message recv returned
parent_loop(p, msg) ==
    CASE msg = "BinaryUpdated" ->
           try_wait([p EXCEPT !.parent_rx_from_parent =
                                 Append(@, "BinaryUpdateComplete")])
      [] msg = "ShutdownChild" -> [p EXCEPT !.parent = "wait"]
      [] OTHER -> try_wait(p)

\* run_parent_process: rx_from_child.recv() returning msg
parent_received(p, msg) ==
    IF p.parent = "ready"
    THEN IF msg = "ChildReady" THEN [p EXCEPT !.parent = "loop"]
         ELSE [p EXCEPT !.parent = "failed"]
    ELSE parent_loop(p, msg)

\* rx_from_child.recv(): the first message waiting is taken; with none
\* waiting the call blocks, the sender _tx_to_parent being alive in the
\* parent itself until it returns
parent_recv(p) ==
    IF p.parent_rx_from_child # <<>>
    THEN parent_received(
             [p EXCEPT !.parent_rx_from_child = Tail(@),
                       !.received = Append(@, Head(p.parent_rx_from_child))],
             Head(p.parent_rx_from_child))
    ELSE p

\* run_parent_process from where the parent is: the channels made and the
\* child spawned, a recv, or child.wait()
parent_step(p) ==
    CASE p.parent = "start" -> [p EXCEPT !.parent = "ready", !.child = "start"]
      [] p.parent \in {"ready", "loop"} -> parent_recv(p)
      [] p.parent = "wait" /\ p.child = "exited" -> [p EXCEPT !.parent = "done"]
      [] OTHER -> p

\* a step of the parent process
ParentStep ==
    /\ parent_step(procs) # procs
    /\ procs' = parent_step(procs)
    /\ procs_unchanged

\* run_child_process: tx_to_parent.send(ChildReady), on the child's channel
ChildSendReady ==
    /\ procs.child = "start"
    /\ procs' = [procs EXCEPT !.child = "manager",
                              !.child_rx_from_child = Append(@, "ChildReady")]
    /\ procs_unchanged

\* the messages in the child's receiver after the manager signalled
child_signalled(p, op) ==
    signal_modified([RwIdle EXCEPT !.op = op, !.message_tx = TRUE,
                                   !.sent = p.child_rx_from_child])

\* run_child_process after the setup or with a profile: interactive mode
\* unless --auto-exit
after_setup(p) == IF p.auto_exit THEN "leaving" ELSE "interactive"

\* PasswordManager::new(false, Some(tx_to_parent.clone()), ..): the storage
\* manager signals when ensure_end_marker appended the marker; when new
\* returns Err a storage manager alone is made, without profiles, and when
\* that returns Err the child returns
ChildNewManager ==
    \E outcome \in {"Ok", "storage", "Err"} :
      /\ procs.child = "manager"
      /\ procs' = [procs EXCEPT
                     !.child =
                        CASE outcome = "Err" -> "exited"
                          [] outcome = "Ok" /\ procs.profiles
                               -> after_setup(procs)
                          [] OTHER -> "setup",
                     !.fresh = IF outcome = "Err" THEN @ ELSE FALSE,
                     !.child_rx_from_child =
                        IF procs.fresh /\ outcome # "Err"
                        THEN child_signalled(procs, "append_end_marker")
                        ELSE procs.child_rx_from_child]
      /\ procs_unchanged

\* run_simple_setup: add_password stores the profile; its error ends the
\* setup and interactive mode is not entered
ChildSetup ==
    \E ok \in BOOLEAN :
      /\ procs.child = "setup"
      /\ procs' = [procs EXCEPT
                     !.child = IF ok THEN after_setup(procs) ELSE "leaving",
                     !.profiles = ok \/ @,
                     !.child_rx_from_child =
                        IF ok THEN child_signalled(procs, "store")
                        ELSE procs.child_rx_from_child]
      /\ procs_unchanged

\* run_interactive_mode: a profile saved; the store signals when it
\* returns Ok
ChildStore ==
    \E ok \in BOOLEAN :
      /\ procs.child = "interactive"
      /\ procs.stores < MaxStores
      /\ procs' = [procs EXCEPT
                     !.stores = @ + 1,
                     !.child_rx_from_child =
                        IF ok THEN child_signalled(procs, "store")
                        ELSE procs.child_rx_from_child]
      /\ procs_unchanged

\* run_child_process: tx_to_parent.send(ShutdownChild), then the child exits
ChildShutdown ==
    /\ procs.child \in {"interactive", "leaving"}
    /\ procs' = [procs EXCEPT
                   !.child = "exited",
                   !.child_rx_from_child = Append(@, "ShutdownChild")]
    /\ procs_unchanged

ChildNext ==
    \/ ChildSendReady
    \/ ChildNewManager
    \/ ChildSetup
    \/ ChildStore
    \/ ChildShutdown

ProcsNext ==
    \/ ParentStep
    \/ ChildNext

\* the parent and the child, each taking its steps as long as it has one
SpecProcs ==
    ProcsInit /\ [][ProcsNext]_vars /\ WF_vars(ParentStep) /\ WF_vars(ChildNext)

\* the messages of a sequence that are msg
count_of(q, msg) == Cardinality({i \in 1..Len(q) : q[i] = msg})

\* every message the child has sent on tx_to_parent
child_sent(msg) == count_of(procs.child_rx_from_child, msg)

\* C27: once the child has sent ChildReady the parent's recv eventually
\* returns it, and once the child has signalled BinaryUpdated the parent's
\* recv eventually returns it and the parent sends BinaryUpdateComplete.
C27_ParentAnswers ==
    /\ (child_sent("ChildReady") > 0)
         ~> (count_of(procs.received, "ChildReady") > 0)
    /\ (child_sent("BinaryUpdated") > 0)
         ~> (/\ count_of(procs.received, "BinaryUpdated") > 0
             /\ count_of(procs.parent_rx_from_parent,
                         "BinaryUpdateComplete") > 0)

(***************************************************************************)
(* Whole sessions of the protocol loop: longer runs of the requests of a   *)
(* session for two domains whose names spell no command, with the engine   *)
(* as the last ACTIVATE, ACTIVATE_PREVIEW or CANCEL_PREVIEW left it kept   *)
(* beside the loop's state.                                                *)
(***************************************************************************)
MaxSession == 3

SessionDomains == {<<97>>, <<98>>}

\* the requests of a session: no missing field, no damaged frame
SessionMessages ==
    {m \in Messages :
       /\ m.utf8
       /\ \/ m.type \in {<<"INIT">>, <<"RESET">>, <<"CANCEL_PREVIEW">>}
          \/ /\ m.type \in {<<"ACTIVATE">>, <<"ACTIVATE_PREVIEW">>,
                             <<"COMMIT_INCREMENT">>}
             /\ m.domain \in {<<d>> : d \in SessionDomains}
          \/ /\ m.type = <<"SET_COUNTER">>
             /\ m.domain \in {<<d>> : d \in SessionDomains}
             /\ m.counter = <<65541>>
          \/ m.type = <<>> /\ m.charCode = <<65>>}

\* the loop reads message m of the given branch, in a session
SessionRead(m, b) ==
    /\ running
    /\ nmsgs < MaxSession
    /\ branch(m) = b
    /\ message' = m
    /\ nmsgs' = nmsgs + 1

\* the engine and the active fingerprint and counter a handler leaves
activation(o) ==
    Some([structure |-> o.structure,
          active_domain_hash |-> o.SESSION.active_domain_hash,
          active_counter |-> o.SESSION.active_counter])

\* a handler that does not activate: the kept activation stays
SessionStep(o) ==
    /\ Apply(o)
    /\ activated' = activated
    /\ UNCHANGED <<running, storage_vars, result, sys, procs>>

\* a handler that activates when it answers with a status
SessionActivation(o) ==
    /\ Apply(o)
    /\ activated' = IF o.response.kind = "status" THEN activation(o)
                    ELSE activated
    /\ UNCHANGED <<running, storage_vars, result, sys, procs>>

SessionInit ==
    \E m \in SessionMessages :
      SessionRead(m, "INIT") /\ SessionStep(handle_init(Current))

SessionReset ==
    \E m \in SessionMessages :
      SessionRead(m, "RESET") /\ SessionStep(handle_reset(Current))

SessionActivate ==
    \E m \in SessionMessages, fault \in LoopFaults :
      /\ SessionRead(m, "ACTIVATE")
      /\ SessionActivation(handle_activate(Current, m, fault))

SessionActivatePreview ==
    \E m \in SessionMessages :
      /\ SessionRead(m, "ACTIVATE_PREVIEW")
      /\ SessionActivation(handle_activate_preview(Current, m))

SessionCancelPreview ==
    \E m \in SessionMessages :
      /\ SessionRead(m, "CANCEL_PREVIEW")
      /\ SessionActivation(handle_cancel_preview(Current))

SessionSetCounter ==
    \E m \in SessionMessages, fault \in LoopFaults :
      /\ SessionRead(m, "SET_COUNTER")
      /\ SessionStep(handle_set_counter(Current, m, fault))

SessionCommitIncrement ==
    \E m \in SessionMessages, fault \in LoopFaults :
      /\ SessionRead(m, "COMMIT_INCREMENT")
      /\ SessionStep(handle_commit_increment(Current, m, fault))

SessionKeystroke ==
    \E m \in SessionMessages :
      /\ SessionRead(m, "keystroke")
      /\ SessionStep(handle_keystroke(Current, m))

SessionNext ==
    \/ SessionInit
    \/ SessionReset
    \/ SessionActivate
    \/ SessionActivatePreview
    \/ SessionCancelPreview
    \/ SessionSetCounter
    \/ SessionCommitIncrement
    \/ SessionKeystroke

\* the protocol loop over the requests of a session
SpecSession == Init /\ [][SessionNext]_vars

\* C31 as stated: RESET on an initialized session clears the feedback list,
\* leaves the engine in exactly the state it had right after the last
\* ACTIVATE, ACTIVATE_PREVIEW or CANCEL_PREVIEW, and leaves the saved
\* counter, the active counter, the preview flag and the active fingerprint
\* unchanged.
C31_AsStatedStep ==
    (Received("RESET") /\ SESSION.initialized /\ activated # None)
    => /\ feedbacks' = <<>>
       /\ structure' = activated[1].structure
       /\ SESSION' = SESSION

C31_ResetRestoresActivation == [][C31_AsStatedStep]_vars

\* C31 amended: RESET on an initialized session clears the feedback list,
\* leaves the engine where a full reset followed by ghost navigation at the
\* current active fingerprint and active counter puts it, and leaves the
\* session unchanged; that state is the one the last ACTIVATE,
\* ACTIVATE_PREVIEW or CANCEL_PREVIEW left whenever the active counter is
\* still the one that command set.
C31_ResetStep ==
    (Received("RESET") /\ SESSION.initialized)
    => /\ feedbacks' = <<>>
       /\ SESSION.active_domain_hash # None
       /\ structure' =
            navigate([structure EXCEPT !.pos = Origin, !.mem = 0],
                     ghost_codes(SESSION.active_domain_hash[1],
                                 SESSION.active_counter))
       /\ SESSION' = SESSION
       /\ (/\ activated # None
           /\ activated[1].active_domain_hash = SESSION.active_domain_hash
           /\ activated[1].active_counter = SESSION.active_counter)
          => structure' = activated[1].structure

C31_ResetNavigates == [][C31_ResetStep]_vars

\* ACTIVATE_PREVIEW, a keystroke, then RESET: the engine is back where the
\* preview left it, away from the origin, the feedback list is empty and
\* the session still previews
C31_Witness ==
    /\ nmsgs = 3
    /\ message.type = <<"RESET">>
    /\ response.text = "reset"
    /\ SESSION.is_preview_mode
    /\ activated # None
    /\ structure = activated[1].structure
    /\ structure.pos # Origin
    /\ feedbacks = <<>>

\* C32: a successful ACTIVATE(d) leaves the session {fingerprint(d), c, c,
\* not in preview, initialized}, c being the counter stored for d before
\* the request (0 when d had no slot, and d then has a slot holding 0), and
\* leaves the engine's cursor and path memory where navigation from the
\* origin over the ghost codes of (fingerprint(d), c) ends, whatever
\* keystrokes and commands the loop processed before.
C32_ActivateStep ==
    \A d \in SessionDomains :
      (/\ Received("ACTIVATE")
       /\ message'.domain = <<d>>
       /\ response'.kind = "status")
      => /\ SESSION' = [active_domain_hash |-> Some(fingerprint(d)),
                        saved_counter |-> stored_counter(DOMAIN_TABLE, d),
                        active_counter |-> stored_counter(DOMAIN_TABLE, d),
                        is_preview_mode |-> FALSE,
                        initialized |-> TRUE]
         /\ find_slot_by_hash(DOMAIN_TABLE', fingerprint(d)) # None
         /\ stored_counter(DOMAIN_TABLE', d) = stored_counter(DOMAIN_TABLE, d)
         /\ structure' =
              navigate(GhostStart,
                       ghost_codes(fingerprint(d),
                                   stored_counter(DOMAIN_TABLE, d)))

C32_ActivateIsHistoryFree == [][C32_ActivateStep]_vars

\* ACTIVATE(d) as the third request, answered "ready" at counter 5: a
\* SET_COUNTER had stored 5 for d before, and the engine is where the ghost
\* codes of (fingerprint(d), 5) lead from the origin
C32_Witness ==
    /\ nmsgs = 3
    /\ message.type = <<"ACTIVATE">>
    /\ message.domain = <<(<<98>>)>>
    /\ response.text = "ready"
    /\ SESSION.active_counter = 5
    /\ SESSION.active_domain_hash = Some(fingerprint(<<98>>))
    /\ structure = navigate(GhostStart, ghost_codes(fingerprint(<<98>>), 5))
    /\ structure.pos # Origin

(***************************************************************************)
(* The executable growing under profile stores: each store of a set-up     *)
(* vault, a domain-table save and the load of a process started anew, on   *)
(* files that reach past the window of the marker scan.                    *)
(***************************************************************************)
MaxGrowth == 3

\* main up to its mode: the table loaded, the caches filled, no store yet
GrowthInit ==
    /\ \E t \in StoredTables :
         /\ files = [exe |-> stored_executable(t), bak |-> NoFile,
                     new |-> NoFile]
         /\ DOMAIN_TABLE = load_from_binary(files, DomainTable_new)
    /\ SESSION = SessionState_empty
    /\ structure = DecodedStructure
    /\ feedbacks = <<>>
    /\ message = NoMessage
    /\ response = NoResponse
    /\ running = FALSE
    /\ nmsgs = 0
    /\ rw = RwIdle
    /\ in_memory_cache = load_all_passwords(files).in_memory_cache
    /\ metadata_cache = load_all_passwords(files).metadata_cache
    /\ saved_passwords = Ok(<<>>)
    /\ result = NoCall
    /\ activated = None
    /\ sys = NoSys
    /\ procs = NoProcs

\* an operation on the executable returned: which one, what it returned
\* and, for an error, where; count is the stores so far
returned(op, ok, at) ==
    [rw EXCEPT !.op = op, !.ret = IF ok THEN "Ok" ELSE "Err",
               !.at = IF ok THEN "none" ELSE at,
               !.count = IF op = "store" THEN rw.count + 1 ELSE rw.count]

\* BinaryStorageManager::store, the whole call, no step of it failing
GrowthStore ==
    \E name \in ProfileNames, created_date \in ProfileDates :
    \E order \in Orders((DOMAIN in_memory_cache) \ {name}) :
      /\ rw.count < MaxGrowth
      /\ LET description == MainProfile.description
             data == to_bytes(saved_password(name, description,
                                             created_date))
         IN /\ in_memory_cache' = insert(in_memory_cache, name, data)
            /\ metadata_cache' = insert(metadata_cache, name, description)
            /\ files' = run_rewrite(files,
                            store_content(files.exe.data, order,
                                          in_memory_cache, metadata_cache,
                                          name, description, data),
                            "none", TRUE).fs
      /\ rw' = returned("store", TRUE, "none")
      /\ UNCHANGED <<DOMAIN_TABLE, loop_vars, saved_passwords, side_vars>>

\* set_counter on the table in memory, then DomainTable::save_to_binary,
\* the whole call, no step of it failing
GrowthSave ==
    \E counter \in 1..2 :
      LET sc == set_counter(DOMAIN_TABLE, DecodedStructure, <<97>>, counter)
          saved == save_to_binary(files, sc.table, "none")
      IN /\ sc.ok
         /\ stored_counter(DOMAIN_TABLE, <<97>>) # counter
         /\ DOMAIN_TABLE' = sc.table
         /\ files' = saved.fs
         /\ rw' = returned("save_to_binary", saved.ok, "scan")
         /\ UNCHANGED <<in_memory_cache, metadata_cache, loop_vars,
                        saved_passwords, side_vars>>

\* DomainTable::load_from_binary, which returns Ok whether or not it found
\* the marker
GrowthLoad ==
    /\ rw.op # "load_from_binary"
    /\ DOMAIN_TABLE' = load_from_binary(files, DOMAIN_TABLE)
    /\ rw' = returned("load_from_binary", TRUE, "none")
    /\ UNCHANGED <<files, in_memory_cache, metadata_cache, loop_vars,
                   saved_passwords, side_vars>>

GrowthNext ==
    \/ GrowthStore
    \/ GrowthSave
    \/ GrowthLoad

\* stores, table saves and table loads on a set-up vault
SpecGrowth == GrowthInit /\ [][GrowthNext]_vars

\* the domain-table marker is in the file and the scan does not reach it
outside_window(buffer) ==
    /\ table_marker_pos_unbounded(buffer) # None
    /\ table_marker_pos(buffer) = None

\* this step is a store that returned Ok
Stored == rw'.op = "store" /\ rw'.count = rw.count + 1 /\ rw'.ret = "Ok"

\* what a store leaves of the table: the marker and the blob, run for run,
\* at the byte they started at, in a longer file
table_kept(old, new, pos) ==
    /\ table_marker_pos_unbounded(new) = Some(pos)
    /\ new[pos] = old[pos]
    /\ new[pos + 1] = old[pos + 1]
    /\ offset_of(new, pos) = offset_of(old, pos)
    /\ Len(file_bytes(new)) > Len(file_bytes(old))

\* C33: a profile store changes neither the domain-table marker nor the
\* blob bytes nor the byte they start at, and lengthens the file after
\* them; after MaxGrowth stores the marker lies before the window the
\* backward scan covers, and once it does it stays there, a load of the
\* table returns Ok with the table in memory unchanged and a save of the
\* table returns the not-found error of the scan, the file untouched.
C33_Step ==
    /\ (Stored /\ table_marker_pos_unbounded(files.exe.data) # None)
       => table_kept(files.exe.data, files'.exe.data,
                     table_marker_pos_unbounded(files.exe.data)[1])
    /\ rw.count >= MaxGrowth => outside_window(files.exe.data)
    /\ outside_window(files.exe.data)
       => /\ outside_window(files'.exe.data)
          /\ rw'.op = "load_from_binary"
             => (DOMAIN_TABLE' = DOMAIN_TABLE /\ rw'.ret = "Ok")
          /\ (rw'.op = "save_to_binary" /\ DOMAIN_TABLE' # DOMAIN_TABLE)
             => (rw'.ret = "Err" /\ rw'.at = "scan" /\ files' = files)

C33_TableLeftBehind == [][C33_Step]_vars

\* after two stores the marker is out of the window; a save of counter 1
\* failed and a load followed: the table in memory still holds 1 and the
\* blob in the file still holds the counter it held at the start
C33_Witness ==
    /\ rw.count = 2
    /\ outside_window(files.exe.data)
    /\ rw.op = "load_from_binary"
    /\ rw.ret = "Ok"
    /\ stored_counter(DOMAIN_TABLE, <<97>>) = 1
    /\ stored_counter(
          files.exe.data[table_marker_pos_unbounded(files.exe.data)[1] + 1].v,
          <<97>>) = 65534

(***************************************************************************)
(* The session while the protocol loop runs.                               *)
(***************************************************************************)
\* C34: while the loop runs, a session that is not in preview has its
\* active counter equal to its saved counter, and a session in preview is
\* initialized, holds an active fingerprint and has its active counter at
\* min(saved counter + 1, 65535).
C34_SessionCountersAgree ==
    running
    => /\ ~SESSION.is_preview_mode
          => SESSION.active_counter = SESSION.saved_counter
       /\ SESSION.is_preview_mode
          => /\ SESSION.initialized
             /\ SESSION.active_domain_hash # None
             /\ SESSION.active_counter = next_counter(SESSION.saved_counter)

\* a preview of a domain whose stored counter is 65535: the active counter
\* stays at 65535
C34_Witness ==
    /\ running
    /\ message.type = <<"ACTIVATE_PREVIEW">>
    /\ SESSION.is_preview_mode
    /\ SESSION.initialized
    /\ SESSION.saved_counter = U16Max
    /\ SESSION.active_counter = U16Max

\* the slot a table holds for domain d: None when it has none
slot_of(table, d) ==
    IF find_slot_by_hash(table, fingerprint(d)) = None THEN None
    ELSE Some(table[find_slot_by_hash(table, fingerprint(d))[1]])

\* C35 as stated: while the session previews domain d, a COMMIT_INCREMENT
\* request that carries another domain e neither creates nor modifies the
\* slot of e.
C35_CommitStep ==
    \A d, e \in PlainDomains :
      (/\ fingerprint(d) # fingerprint(e)
       /\ Received("COMMIT_INCREMENT")
       /\ message'.domain = <<e>>
       /\ SESSION.is_preview_mode
       /\ SESSION.active_domain_hash = Some(fingerprint(d)))
      => slot_of(DOMAIN_TABLE', e) = slot_of(DOMAIN_TABLE, e)

C35_CommitOnlyPreviewed == [][C35_CommitStep]_vars

\* the commands after which the engine is said to be at the ghost state
GhostCommands ==
    {"ACTIVATE", "ACTIVATE_PREVIEW", "CANCEL_PREVIEW", "RESET", "INIT",
     "SET_COUNTER", "COMMIT_INCREMENT"}

\* the last message was one of those commands, SET_COUNTER being for the
\* active domain
after_ghost_command ==
    /\ nmsgs > 0
    /\ message.framed
    /\ message.utf8
    /\ \E t \in GhostCommands : message.type = <<t>>
    /\ message.type = <<"SET_COUNTER">>
       => \E d \in Domains :
            /\ message.domain = <<d>>
            /\ SESSION.active_domain_hash = Some(fingerprint(d))

\* C36 as stated: while the loop runs, after a command that left the
\* session initialized and before the next keystroke, an empty feedback
\* list goes with an engine whose cursor and path memory are those of
\* ghost navigation for the active fingerprint and the active counter.
C36_GhostStateKept ==
    (/\ running
     /\ after_ghost_command
     /\ SESSION.initialized
     /\ SESSION.active_domain_hash # None
     /\ feedbacks = <<>>)
    => structure = navigate(GhostStart,
                            ghost_codes(SESSION.active_domain_hash[1],
                                        SESSION.active_counter))

\* C38 as stated: a SET_COUNTER request for a domain with counter value n
\* that is answered "success" has stored n in the slot of the domain, for
\* every n the request can carry, values above 65535 included.
C38_SetCounterStep ==
    \A d \in PlainDomains :
      (/\ Received("SET_COUNTER")
       /\ message'.domain = <<d>>
       /\ message'.counter # <<>>
       /\ response'.text = "success")
      => stored_counter(DOMAIN_TABLE', d) = message'.counter[1]

C38_SetCounterStoresValue == [][C38_SetCounterStep]_vars

(***************************************************************************)
(* Two runs of the loop compared: what is typed in a preview, and what is  *)
(* typed after the preview was committed and the domain activated.         *)
(***************************************************************************)
RECURSIVE run_session(_, _, _)
run_session_next(o, rest, responses) ==
    run_session(o, rest, Append(responses, o.response))

\* the loop over a sequence of messages, no save failing: the state it
\* leaves and the responses it wrote
run_session(ls, msgs, responses) ==
    IF msgs = <<>> THEN [ls |-> ls, responses |-> responses]
    ELSE run_session_next(loop_body(ls, Head(msgs), "none"), Tail(msgs),
                          responses)

\* the character codes typed, and the keystroke messages of a sequence
Keys == {65, 66}
KeySequences == UNION {[1..n -> Keys] : n \in 1..MaxInputs}
keystrokes(s) == [i \in 1..Len(s) |-> [BlankMessage EXCEPT !.charCode = <<s[i]>>]]

\* the responses to ACTIVATE_PREVIEW(d) and the keystrokes s
previewed(ls, d, s) ==
    run_session(ls, <<Request("ACTIVATE_PREVIEW", d)>> \o keystrokes(s), <<>>)

\* the responses to COMMIT_INCREMENT(d), ACTIVATE(d) and the keystrokes s
committed(ls, d, s) ==
    run_session(ls, <<Request("COMMIT_INCREMENT", d), Request("ACTIVATE", d)>>
                    \o keystrokes(s), <<>>)

\* the responses to the keystrokes, after the n responses to the commands
typed_outputs(run, n) == SubSeq(run.responses, n + 1, Len(run.responses))

\* the preview of d typed into with s, then committed, activated and typed
\* into again: both typings have the same outputs
same_after_typing(ls, d, s, p) ==
    LET c == committed(p.ls, d, s)
    IN c.responses[1].text = "committed"
       => /\ c.responses[2].text = "ready"
          /\ typed_outputs(c, 2) = typed_outputs(p, 1)

\* the preview of d committed at once, then activated and typed into
same_at_once(ls, d, s, p) ==
    LET c == committed(previewed(ls, d, <<>>).ls, d, s)
    IN c.responses[1].text = "committed"
       => /\ c.responses[2].text = "ready"
          /\ typed_outputs(c, 2) = typed_outputs(p, 1)

\* both, and every keystroke typed in the preview answered with an output
all_answered(ls, d, s, p) ==
    /\ same_after_typing(ls, d, s, p)
    /\ same_at_once(ls, d, s, p)
    /\ \A i \in 1..Len(s) : p.responses[i + 1].kind = "output"

\* C37: from every state of the loop, for each domain d and each keystroke
\* sequence s, the outputs of s typed after ACTIVATE_PREVIEW(d) are the
\* outputs of s typed after a COMMIT_INCREMENT(d) that is answered
\* "committed" and an ACTIVATE(d), whether the commit follows the preview
\* at once or follows the typing in the preview; every keystroke of s is
\* answered with an output.
C37_PreviewIsCommitted ==
    \A d \in SessionDomains, s \in KeySequences :
      all_answered(Current, d, s, previewed(Current, d, s))

\* a key typed in the preview of a domain stored at 65534 was answered with
\* an output; the commit stores 65535, the ACTIVATE that follows is
\* answered "ready" at 65535, and the same key typed again gets the same
\* output
C37_Witness ==
    /\ nmsgs = 2
    /\ message.charCode = <<65>>
    /\ response.kind = "output"
    /\ SESSION.is_preview_mode
    /\ SESSION.active_domain_hash = Some(fingerprint(<<97>>))
    /\ SESSION.active_counter = U16Max
    /\ committed(Current, <<97>>, <<65>>).responses[1].text = "committed"
    /\ committed(Current, <<97>>, <<65>>).responses[2].nums[1] = U16Max
    /\ committed(Current, <<97>>, <<65>>).responses[3] = response

(***************************************************************************)
(* The shape of the table under the calls of SpecTable.                    *)
(***************************************************************************)
\* no two occupied slots of the table hold the same fingerprint
distinct_fingerprints(table) ==
    \A i, j \in occupied(table) :
      table[i].domain_hash = table[j].domain_hash => i = j

\* the occupied slots are the first ones of the array
contiguous_prefix(table) ==
    occupied(table) = 1..Cardinality(occupied(table))

\* C39: every call of set_counter, set_rules, get_counter or
\* increment_counter, in any sequence from the empty table, leaves a table
\* in which no two occupied slots hold the same fingerprint and the
\* occupied slots are a contiguous prefix of the array, and leaves at least
\* as many slots occupied as it found.
C39_Step ==
    /\ distinct_fingerprints(DOMAIN_TABLE')
    /\ contiguous_prefix(DOMAIN_TABLE')
    /\ Cardinality(occupied(DOMAIN_TABLE'))
         >= Cardinality(occupied(DOMAIN_TABLE))
C39_TableShape == [][C39_Step]_vars

\* two slots are occupied, by different fingerprints, after four calls or
\* more, the last two a set_rules and an increment_counter that both
\* succeeded: at least two calls of the four were for a domain that
\* already had its slot
C39_Witness ==
    /\ result.n >= 4
    /\ result.fn = "increment_counter"
    /\ result.prev = "set_rules"
    /\ result.ret = "Ok"
    /\ occupied(DOMAIN_TABLE) = {1, 2}
    /\ DOMAIN_TABLE[1].domain_hash # DOMAIN_TABLE[2].domain_hash
    /\ DOMAIN_TABLE[1].counter > 0
    /\ DOMAIN_TABLE[2].counter > 0

(***************************************************************************)
(* The caches of the manager when store returns an error.                  *)
(***************************************************************************)
\* the two caches of the manager
caches(memory, metadata) ==
    [in_memory_cache |-> memory, metadata_cache |-> metadata]

\* this step is store returning an error
StoreFailed ==
    /\ rw'.op = "store"
    /\ rw'.ret = "Err"
    /\ rw'.pc = "idle"
    /\ \/ rw.pc = "idle" /\ rw'.count = rw.count + 1
       \/ rw.pc # "idle" /\ rw.op = "store" /\ ~rw.crashed

\* the caches as the call of store that returns in this step found them
before_store ==
    IF rw.pc = "idle" THEN caches(in_memory_cache, metadata_cache)
    ELSE rw.before[1]

\* C40: when store returns an error, at whichever step (the executable not
\* opened, the temp file not created or not written, the permissions not
\* copied, either rename failed), in_memory_cache and metadata_cache are
\* what they were before the call.
C40_FailedStoreStep ==
    StoreFailed
    => caches(in_memory_cache', metadata_cache') = before_store
C40_FailedStoreKeepsCaches == [][C40_FailedStoreStep]_vars

====
